---------------------------- MODULE Spec2Model ----------------------------
(***************************************************************************)
(* Model of build_playlist.py: text normalization, the fuzzy match engine  *)
(* (best_match) and the playlist pipeline (main).                          *)
(*                                                                         *)
(* A Python str is a sequence of characters; a character is a one-letter   *)
(* TLA+ string.  Similarity scores of rapidfuzz are floats; they are kept  *)
(* here as exact fractions <<numerator, denominator>> in lowest terms.     *)
(***************************************************************************)
EXTENDS Integers, Sequences, FiniteSets, TLC

(***************************************************************************)
(* Characters                                                              *)
(***************************************************************************)
\* The characters of the model's inputs, in code-point order.
Alphabet ==
  << " ", "!", "#", "&", "'", "(", ")", "+", ",", "-", ".", "/",
     "0", "1", "2", "3", "4", "5", "6", "7", "8", "9", ":",
     "A", "B", "C", "D", "E", "F", "G", "H", "I", "J", "K", "L", "M",
     "N", "O", "P", "Q", "R", "S", "T", "U", "V", "W", "X", "Y", "Z",
     "[", "]", "^", "_",
     "a", "b", "c", "d", "e", "f", "g", "h", "i", "j", "k", "l", "m",
     "n", "o", "p", "q", "r", "s", "t", "u", "v", "w", "x", "y", "z",
     "é" >>

\* Position of a character in code-point order (Python compares str by code point).
Code(c) == CHOOSE i \in 1..Len(Alphabet) : Alphabet[i] = c

Digits == {"0", "1", "2", "3", "4", "5", "6", "7", "8", "9"}
UpperCase == {Alphabet[i] : i \in Code("A")..Code("Z")}
IsDigit(c) == c \in Digits
IsSpace(c) == c = " "
DigitVal(c) == Code(c) - Code("0")

\* str.lower() on one character
LowerChar(c) == IF c \in UpperCase THEN Alphabet[Code(c) - Code("A") + Code("a")] ELSE c

Max2(a, b) == IF a >= b THEN a ELSE b

(***************************************************************************)
(* Python str primitives                                                   *)
(***************************************************************************)
Str_lower(s) == [i \in 1..Len(s) |-> LowerChar(s[i])]

\* s[from:] (1-based, inclusive)
Drop(s, n) == SubSeq(s, n + 1, Len(s))
Take(s, n) == SubSeq(s, 1, n)

\* number of leading / trailing whitespace characters
RECURSIVE LeadSpaces(_)
LeadSpaces(s) == IF s = <<>> \/ ~IsSpace(s[1]) THEN 0 ELSE 1 + LeadSpaces(Tail(s))
RECURSIVE TrailSpaces(_)
TrailSpaces(s) ==
  IF s = <<>> \/ ~IsSpace(s[Len(s)]) THEN 0 ELSE 1 + TrailSpaces(Take(s, Len(s) - 1))

Str_lstrip(s) == Drop(s, LeadSpaces(s))
Str_rstrip(s) == Take(s, Len(s) - TrailSpaces(s))
Str_strip(s) == Str_rstrip(Str_lstrip(s))

StartsWith(s, p) == Len(s) >= Len(p) /\ Take(s, Len(p)) = p

\* str.replace of a single character by a string
RECURSIVE ReplaceChar(_, _, _)
ReplaceChar(s, c, r) ==
  IF s = <<>> THEN <<>>
  ELSE (IF s[1] = c THEN r ELSE <<s[1]>>) \o ReplaceChar(Tail(s), c, r)

\* substring test: p in s
Contains(s, p) == \E i \in 0..(Len(s) - Len(p)) : SubSeq(s, i + 1, i + Len(p)) = p

\* the members of a set of integers as a list in increasing order
RECURSIVE IdxSeq(_)
IdxSeq(S) ==
  IF S = {} THEN <<>>
  ELSE LET m == CHOOSE x \in S : \A y \in S : x <= y
       IN <<m>> \o IdxSeq(S \ {m})

\* str.split(): maximal runs of non-whitespace characters
Str_split(s) ==
  LET starts == IdxSeq({i \in 1..Len(s) : ~IsSpace(s[i]) /\ (i = 1 \/ IsSpace(s[i - 1]))})
      end(i) == CHOOSE k \in i..Len(s) :
                  /\ \A m \in i..k : ~IsSpace(s[m])
                  /\ (k = Len(s) \/ IsSpace(s[k + 1]))
  IN <<>> \o [n \in 1..Len(starts) |-> SubSeq(s, starts[n], end(starts[n]))]

\* " ".join(tokens)
RECURSIVE Str_join(_)
Str_join(toks) ==
  IF toks = <<>> THEN <<>>
  ELSE IF Len(toks) = 1 THEN toks[1]
  ELSE toks[1] \o <<" ">> \o Str_join(Tail(toks))

\* s.replace(" ", "")
Str_nospace(s) == ReplaceChar(s, " ", <<>>)

\* str comparison a < b (lexicographic by code point)
RECURSIVE StrLess(_, _)
StrLess(a, b) ==
  IF b = <<>> THEN FALSE
  ELSE IF a = <<>> THEN TRUE
  ELSE IF a[1] = b[1] THEN StrLess(Tail(a), Tail(b))
  ELSE Code(a[1]) < Code(b[1])

\* sorted(): stable insertion sort of a list of str
RECURSIVE InsertSorted(_, _)
InsertSorted(x, sorted) ==
  IF sorted = <<>> THEN <<x>>
  ELSE IF StrLess(x, sorted[1]) THEN <<x>> \o sorted
  ELSE <<sorted[1]>> \o InsertSorted(x, Tail(sorted))
RECURSIVE SortedAcc(_, _)
SortedAcc(seq, acc) ==
  IF seq = <<>> THEN acc ELSE SortedAcc(Tail(seq), InsertSorted(seq[1], acc))
Sorted(seq) == SortedAcc(seq, <<>>)

SeqToSet(seq) == {seq[i] : i \in 1..Len(seq)}

\* sorted(set_of_str)
RECURSIVE SortedSet(_)
SortedSet(S) ==
  IF S = {} THEN <<>>
  ELSE LET m == CHOOSE x \in S : \A y \in S : y = x \/ StrLess(x, y)
       IN <<m>> \o SortedSet(S \ {m})

(***************************************************************************)
(* Normalizer                                                              *)
(***************************************************************************)
\* unidecode(): transliteration to ASCII, one character at a time
RECURSIVE Unidecode(_)
Unidecode(s) == IF s = <<>> THEN <<>> ELSE (IF s[1] = "é" THEN <<"e">> ELSE <<s[1]>>) \o Unidecode(Tail(s))

\* the alternatives of the leading-article pattern, in the pattern's order
Articles ==
  << <<"t","h","e">>, <<"a">>, <<"a","n">>, <<"l","e">>, <<"l","a">>,
     <<"l","e","s">>, <<"e","l">>, <<"l","o","s">>, <<"l","a","s">>,
     <<"d","e","r">>, <<"d","i","e">>, <<"d","a","s">> >>

\* re.sub(r"^(?:the|a|an|...|das)\s+", "", s)
StripLeadingArticle(s) ==
  LET hits == {i \in 1..Len(Articles) :
                 /\ StartsWith(s, Articles[i])
                 /\ Len(s) > Len(Articles[i])
                 /\ IsSpace(s[Len(Articles[i]) + 1])}
  IN IF hits = {} THEN s
     ELSE LET i == CHOOSE j \in hits : \A k \in hits : j <= k
          IN Str_lstrip(Drop(s, Len(Articles[i])))

\* re.sub(r"^l\s*'", "", s)
StripElision(s) ==
  IF s # <<>> /\ s[1] = "l"
  THEN LET rest == Str_lstrip(Tail(s))
       IN IF rest # <<>> /\ rest[1] = "'" THEN Tail(rest) ELSE s
  ELSE s

\* the character class [\-_'\"(),!/:;\[\]]
PunctChars == {"-", "_", "'", "\"", "(", ")", ",", "!", "/", ":", ";", "[", "]"}

\* re.sub(r"[\-_'\"(),!/:;\[\]]+", " ", s): every run becomes one space
RECURSIVE PunctToSpace(_, _)
PunctToSpace(s, inRun) ==
  IF s = <<>> THEN <<>>
  ELSE IF s[1] \in PunctChars
       THEN (IF inRun THEN <<>> ELSE <<" ">>) \o PunctToSpace(Tail(s), TRUE)
       ELSE <<s[1]>> \o PunctToSpace(Tail(s), FALSE)

\* re.sub(r"\s+", " ", s).strip()
CollapseSpaces(s) == Str_join(Str_split(s))

normalize_text(s) ==
  LET s1 == Unidecode(Str_lower(Str_strip(s)))
      s2 == ReplaceChar(s1, "&", <<" ", "a", "n", "d", " ">>)
      s3 == ReplaceChar(s2, "+", <<" ">>)
      s4 == ReplaceChar(s3, "/", <<" ", "a", "n", "d", " ">>)
      s5 == ReplaceChar(s4, ".", <<>>)
      s6 == StripElision(StripLeadingArticle(s5))
  IN CollapseSpaces(PunctToSpace(s6, FALSE))

\* one iteration of (?:\d{4}\s*): four digits and the whitespace after them
HasYearToken(s) == Len(s) >= 4 /\ \A i \in 1..4 : IsDigit(s[i])
RECURSIVE StripYearTokens(_, _)
StripYearTokens(s, n) ==
  IF n = 0 \/ ~HasYearToken(s) THEN s
  ELSE StripYearTokens(Str_lstrip(Drop(s, 4)), n - 1)

MaxLeadingYears == 3

normalize_album_for_match(s, for_candidate) ==
  LET s_norm == normalize_text(s)
      s_year == IF for_candidate
                THEN StripYearTokens(s_norm, MaxLeadingYears)
                ELSE IF HasYearToken(s_norm) /\ Len(s_norm) > 4 /\ IsSpace(s_norm[5])
                     THEN Str_lstrip(Drop(s_norm, 4))
                     ELSE s_norm
  IN Str_strip(StripElision(StripLeadingArticle(s_year)))

\* re.sub(r"\s*[\(\[][^^)\]]+[\)\]]\s*$", "", s): the leftmost bracket that opens
\* a qualifier running to the end of the string
StripQualifier(s) ==
  LET t == Str_rstrip(s)
      n == Len(t)
      opens == {p \in 1..n :
                  /\ t[p] \in {"(", "["}
                  /\ n > p + 1
                  /\ t[n] \in {")", "]"}
                  /\ \A k \in (p + 1)..(n - 1) : t[k] \notin {"^", ")", "]"}}
  IN IF opens = {} THEN s
     ELSE LET p == CHOOSE q \in opens : \A r \in opens : q <= r
          IN Str_rstrip(Take(t, p - 1))

normalize_artist(s) ==
  IF s = <<>> THEN <<>> ELSE normalize_text(Str_strip(StripQualifier(s)))

(***************************************************************************)
(* rapidfuzz.fuzz: similarity scores as exact fractions                    *)
(***************************************************************************)
RECURSIVE Gcd(_, _)
Gcd(a, b) == IF b = 0 THEN a ELSE Gcd(b, a % b)

\* the fraction n/d (d > 0, n >= 0) in lowest terms
Frac(n, d) == LET g == Gcd(n, d) IN <<n \div g, d \div g>>
FracOfInt(k) == <<k, 1>>

FracGeq(x, y) == x[1] * y[2] >= y[1] * x[2]
FracGt(x, y) == x[1] * y[2] > y[1] * x[2]
FracMax(x, y) == IF FracGeq(x, y) THEN x ELSE y
FracMin(x, y) == IF FracGeq(y, x) THEN x ELSE y
FracAddInt(x, k) == Frac(x[1] + k * x[2], x[2])
\* comparison of a score with an integer threshold
ScoreGeq(x, k) == x[1] >= k * x[2]
ScoreLt(x, k) == ~ScoreGeq(x, k)

\* one row of the longest-common-subsequence table, for character ch of a:
\* acc[j + 1] is the value for the first j characters of b, prev is the row above
RECURSIVE LcsRow(_, _, _, _)
LcsRow(ch, b, prev, acc) ==
  IF Len(acc) > Len(b) THEN acc
  ELSE LET j == Len(acc)
       IN LcsRow(ch, b, prev,
                 Append(acc, IF ch = b[j] THEN prev[j] + 1
                             ELSE Max2(prev[j + 1], acc[j])))
\* the table row by row; the last entry of the last row is the length of the
\* longest common subsequence
RECURSIVE LcsRows(_, _, _, _)
LcsRows(a, b, i, prev) ==
  IF i > Len(a) \/ Len(prev) = 0 THEN prev[Len(b) + 1]
  ELSE LcsRows(a, b, i + 1, LcsRow(a[i], b, prev, <<0>>))
Lcs(a, b) == LcsRows(a, b, 1, [j \in 1..(Len(b) + 1) |-> 0])

\* Indel distance: insertions and deletions turning a into b
indel_distance(a, b) == Len(a) + Len(b) - 2 * Lcs(a, b)

\* 100 - 100 * dist / lensum, and 100 when lensum = 0
norm_distance(dist, lensum) ==
  IF lensum = 0 THEN FracOfInt(100) ELSE Frac(100 * (lensum - dist), lensum)

\* fuzz.ratio
fuzz_ratio(a, b) == norm_distance(indel_distance(a, b), Len(a) + Len(b))

\* fuzz.token_sort_ratio
fuzz_token_sort_ratio(a, b) ==
  fuzz_ratio(Str_join(Sorted(Str_split(a))), Str_join(Sorted(Str_split(b))))

\* fuzz.token_set_ratio
fuzz_token_set_ratio(a, b) ==
  LET tokens_a == SeqToSet(Str_split(a))
      tokens_b == SeqToSet(Str_split(b))
      intersect == tokens_a \cap tokens_b
      diff_ab == tokens_a \ tokens_b
      diff_ba == tokens_b \ tokens_a
      diff_ab_joined == Str_join(SortedSet(diff_ab))
      diff_ba_joined == Str_join(SortedSet(diff_ba))
      ab_len == Len(diff_ab_joined)
      ba_len == Len(diff_ba_joined)
      sect_len == Len(Str_join(SortedSet(intersect)))
      sep == IF sect_len # 0 THEN 1 ELSE 0
      sect_ab_len == sect_len + sep + ab_len
      sect_ba_len == sect_len + sep + ba_len
      result == norm_distance(indel_distance(diff_ab_joined, diff_ba_joined),
                              sect_ab_len + sect_ba_len)
      sect_ab_ratio == norm_distance(sep + ab_len, sect_len + sect_ab_len)
      sect_ba_ratio == norm_distance(sep + ba_len, sect_len + sect_ba_len)
  IN IF tokens_a = {} \/ tokens_b = {} THEN FracOfInt(0)
     ELSE IF intersect # {} /\ (diff_ab = {} \/ diff_ba = {}) THEN FracOfInt(100)
     ELSE IF sect_len = 0 THEN result
     ELSE FracMax(result, FracMax(sect_ab_ratio, sect_ba_ratio))

(***************************************************************************)
(* extract_years                                                           *)
(***************************************************************************)
\* None of an Optional[int]
NoneInt == -1
\* None (or "") of an Optional[str]
NoneStr == <<>>

RECURSIVE DigitRunLen(_, _)
DigitRunLen(s, i) ==
  IF i > Len(s) \/ ~IsDigit(s[i]) THEN 0 ELSE 1 + DigitRunLen(s, i + 1)

\* int() of a string of digits
RECURSIVE IntOf(_)
IntOf(s) == IF s = <<>> THEN 0 ELSE 10 * IntOf(Take(s, Len(s) - 1)) + DigitVal(s[Len(s)])

\* re.findall(r"(?<!\d)(19\d{2}|20\d{2})(?!\d)", s): the digit runs of length
\* four that start with 19 or 20, left to right
RECURSIVE FindYears(_, _)
FindYears(s, i) ==
  IF i > Len(s) THEN <<>>
  ELSE LET n == DigitRunLen(s, i)
       IN IF n = 0 THEN FindYears(s, i + 1)
          ELSE (IF n = 4 /\ SubSeq(s, i, i + 1) \in {<<"1", "9">>, <<"2", "0">>}
                THEN <<IntOf(SubSeq(s, i, i + 3))>> ELSE <<>>)
               \o FindYears(s, i + n)

\* re.finditer(r"\[(.*?)\]", s): the texts between a "[" and the next "]"
RECURSIVE BracketSegments(_)
BracketSegments(s) ==
  LET opens == {i \in 1..Len(s) : s[i] = "[" /\ \E j \in (i + 1)..Len(s) : s[j] = "]"}
  IN IF opens = {} THEN <<>>
     ELSE LET i == CHOOSE k \in opens : \A m \in opens : k <= m
              j == CHOOSE k \in (i + 1)..Len(s) :
                     s[k] = "]" /\ \A m \in (i + 1)..(k - 1) : s[m] # "]"
          IN <<SubSeq(s, i + 1, j - 1)>> \o BracketSegments(Drop(s, j))

\* out.append(val) if val not in out, for each val of vals
RECURSIVE ExtendUnique(_, _)
ExtendUnique(out, vals) ==
  IF vals = <<>> THEN out
  ELSE ExtendUnique(IF vals[1] \in SeqToSet(out) THEN out ELSE Append(out, vals[1]),
                    Tail(vals))

RECURSIVE SegmentYears(_, _)
SegmentYears(segs, out) ==
  IF segs = <<>> THEN out
  ELSE SegmentYears(Tail(segs), ExtendUnique(out, FindYears(segs[1], 1)))

\* the years in text order, brackets or not
extract_years_text_order(s) == ExtendUnique(<<>>, FindYears(s, 1))

extract_years(s) ==
  IF s = <<>> THEN <<>>
  ELSE ExtendUnique(SegmentYears(BracketSegments(s), <<>>), FindYears(s, 1))

(***************************************************************************)
(* MatchEngine: best_match                                                 *)
(***************************************************************************)
allowed_extras ==
   { <<"p","a","r","a","p","h","e","r","n","a","l","i","a">>,
     <<"p","e","p","o">>,
     <<"m","t","o","t","o">>,
     <<"w","o","l","f">>,
     <<"g","r","o","u","p">>,
     <<"b","a","n","d">>,
     <<"e","n","s","e","m","b","l","e">>,
     <<"c","o","m","b","i","n","a","t","i","o","n">>,
     <<"c","o","m","b","o">>,
     <<"c","o","l","l","e","c","t","i","v","e">>,
     <<"p","r","o","j","e","c","t">>,
     <<"o","r","c","h","e","s","t","r","a">>,
     <<"q","u","a","r","t","e","t">>,
     <<"q","u","i","n","t","e","t">>,
     <<"s","e","x","t","e","t">>,
     <<"t","r","i","o">>,
     <<"d","u","o">>,
     <<"c","o","m","p","a","n","y">>,
     <<"a","n","d">>,
     <<"w","i","t","h">>,
     <<"f","e","a","t">>,
     <<"f","e","a","t","u","r","i","n","g">>,
     <<"w","h","o","l","e">>,
     <<"w","o","r","l","d">> }

allowed_album_extras ==
   { <<"d","e","l","u","x","e">>,
     <<"r","e","m","a","s","t","e","r">>,
     <<"r","e","m","a","s","t","e","r","e","d">>,
     <<"e","d","i","t","i","o","n">>,
     <<"e","x","p","a","n","d","e","d">>,
     <<"m","o","n","o">>,
     <<"s","t","e","r","e","o">>,
     <<"c","o","m","p","l","e","t","e">>,
     <<"c","o","l","l","e","c","t","i","o","n">>,
     <<"a","n","t","h","o","l","o","g","y">> }

ArtistSetMin == 85
ArtistSortMin == 90
AliasAlbumMin == 95
AlbumNsMin == 85
AlbumNsSlack == 5
SelfTitledNsMin == 99
ExactYearBonus == 10
NearYearBonus == 5
FallbackArtistMin == 90
FallbackScore == 90
FallbackYearScore == 92

\* ("+" in s) or ("&" in s) or ("/" in s) or (" and " in s.lower())
HasCollabMarker(s) ==
  \/ \E i \in 1..Len(s) : s[i] \in {"+", "&", "/"}
  \/ Contains(Str_lower(s), <<" ", "a", "n", "d", " ">>)

\* str.isdigit()
Str_isdigit(tok) == tok # <<>> /\ \A i \in 1..Len(tok) : IsDigit(tok[i])

\* best_match._extras_ok
extras_ok(tokens) ==
  \A tok \in tokens : Str_isdigit(tok) \/ tok \in allowed_album_extras

\* min(abs(y - ty) for y in cand_years)
MinYearDiff(cand_years, ty) ==
  LET diffs == {IF cand_years[i] >= ty THEN cand_years[i] - ty ELSE ty - cand_years[i] :
                  i \in 1..Len(cand_years)}
  IN CHOOSE d \in diffs : \A e \in diffs : d <= e

\* lines 477-486: the candidate's years, from the album text and then from the path
cand_years_of(album_years, root_years) ==
  album_years \o SelectSeq(root_years, LAMBDA y : y \notin SeqToSet(album_years))

\* lines 487-493
year_diff_from(cand_years, target_year) ==
  IF target_year # NoneStr /\ cand_years # <<>> /\ Str_isdigit(target_year)
  THEN MinYearDiff(cand_years, IntOf(target_year))
  ELSE NoneInt

\* lines 477-493: the candidate's years against the target year
year_diff_of(c, target_year) ==
  year_diff_from(cand_years_of(extract_years(c.album), extract_years(c.root)), target_year)

\* year_adjusted without the limit of 100 on the bonus
year_adjusted_unclamped(score, year_diff) ==
  IF year_diff = 0 THEN FracAddInt(score, ExactYearBonus)
  ELSE IF year_diff = 1 THEN FracAddInt(score, NearYearBonus)
  ELSE score

\* year_adjusted with the score of a candidate whose years are all further off set to 0
year_adjusted_far_excluded(score, year_diff) ==
  IF year_diff = 0 THEN FracMin(FracOfInt(100), FracAddInt(score, ExactYearBonus))
  ELSE IF year_diff = 1 THEN FracMin(FracOfInt(100), FracAddInt(score, NearYearBonus))
  ELSE IF year_diff = NoneInt THEN score
  ELSE FracOfInt(0)

\* year_adjusted with a deduction for a candidate whose year is further off
year_adjusted_penalising(score, year_diff) ==
  IF year_diff = 0 THEN FracMin(FracOfInt(100), FracAddInt(score, ExactYearBonus))
  ELSE IF year_diff = 1 THEN FracMin(FracOfInt(100), FracAddInt(score, NearYearBonus))
  ELSE IF year_diff = NoneInt THEN score
  ELSE FracMax(FracOfInt(0), FracAddInt(score, 0 - NearYearBonus))

\* lines 498-504: the bonus for a close year, and the clamp
year_adjusted(score, year_diff) ==
  FracMax(FracOfInt(0),
    FracMin(FracOfInt(100),
      IF year_diff = 0 THEN FracMin(FracOfInt(100), FracAddInt(score, ExactYearBonus))
      ELSE IF year_diff = 1 THEN FracMin(FracOfInt(100), FracAddInt(score, NearYearBonus))
      ELSE score))

\* lines 495-504: base score and the bonus for a close year
final_score(label_score, album_score, year_diff) ==
  year_adjusted(FracMax(label_score, album_score), year_diff)

\* the alias exception whatever the album score
artist_alias_any_album(t_tokens, c_tokens, album_score, score_cutoff) ==
  /\ c_tokens # {}
  /\ c_tokens \subseteq t_tokens
  /\ Cardinality(c_tokens) >= 2
  /\ {tok \in t_tokens \ c_tokens : tok # <<"s">>} # {}
  /\ {tok \in t_tokens \ c_tokens : tok # <<"s">>} \subseteq allowed_extras

\* lines 413-420
artist_alias_ok(t_tokens, c_tokens, album_score, score_cutoff) ==
  /\ c_tokens # {}
  /\ c_tokens \subseteq t_tokens
  /\ Cardinality(c_tokens) >= 2
  /\ {tok \in t_tokens \ c_tokens : tok # <<"s">>} # {}
  /\ {tok \in t_tokens \ c_tokens : tok # <<"s">>} \subseteq allowed_extras
  /\ ScoreGeq(album_score, Max2(score_cutoff, AliasAlbumMin))

\* lines 424-430
collab_ok(t_tokens, c_tokens, album_score, artist_set_score, has_collab_marker, score_cutoff) ==
  /\ t_tokens \subseteq c_tokens
  /\ ScoreGeq(album_score, Max2(score_cutoff, AliasAlbumMin))
  /\ ScoreGeq(artist_set_score, ArtistSetMin)
  /\ (has_collab_marker \/ Cardinality(c_tokens) <= Cardinality(t_tokens) + 2)
  /\ Cardinality(t_tokens) >= 2

\* lines 433-439
duo_subset_ok(t_tokens, c_tokens, album_score, artist_set_score, has_multi_target, score_cutoff) ==
  /\ has_multi_target
  /\ c_tokens \subseteq t_tokens
  /\ Cardinality(c_tokens) >= 2
  /\ ScoreGeq(album_score, Max2(score_cutoff, AliasAlbumMin))
  /\ ScoreGeq(artist_set_score, ArtistSetMin)

\* line 443
single_token_superset(t_tokens, c_tokens) ==
  /\ Cardinality(t_tokens) = 1
  /\ c_tokens # t_tokens
  /\ t_tokens \subseteq c_tokens

\* line 453, first disjunct: the direct artist test
artist_direct_ok(artist_set_score, artist_sort_score) ==
  /\ ScoreGeq(artist_set_score, ArtistSetMin)
  /\ ScoreGeq(artist_sort_score, ArtistSortMin)

\* album_gate_ok with fixed thresholds in place of the cutoff
album_gate_ignoring_cutoff(album_token_score, album_ns_score, score_cutoff) ==
  /\ ScoreGeq(album_token_score, AlbumNsMin)
  /\ ScoreGeq(album_ns_score, AlbumNsMin)

\* line 390
album_gate_ok(album_token_score, album_ns_score, score_cutoff) ==
  /\ ScoreGeq(album_token_score, score_cutoff)
  /\ ScoreGeq(album_ns_score, Max2(AlbumNsMin, score_cutoff - AlbumNsSlack))

\* lines 408-471 on the normalized texts and their scores: artist_ok and strong_album_ok
gate_decide(t_artist, t_album, c_artist, c_album, t_tokens, c_tokens, has_multi_target, has_collab_marker, artist_set_score, artist_sort_score, album_token_score, album_ns_score, album_score, album_extras, score_cutoff) ==
  LET t_is_self_titled == (t_album = t_artist)
      artist_ok ==
        /\ \/ artist_direct_ok(artist_set_score, artist_sort_score)
           \/ artist_alias_ok(t_tokens, c_tokens, album_score, score_cutoff)
           \/ collab_ok(t_tokens, c_tokens, album_score, artist_set_score,
                        has_collab_marker, score_cutoff)
           \/ duo_subset_ok(t_tokens, c_tokens, album_score, artist_set_score,
                            has_multi_target, score_cutoff)
        /\ (single_token_superset(t_tokens, c_tokens) =>
              /\ t_is_self_titled
              /\ c_album = c_artist
              /\ ScoreGeq(album_ns_score, SelfTitledNsMin))
      strong_album_ok ==
        /\ album_gate_ok(album_token_score, album_ns_score, score_cutoff)
        /\ ~(t_is_self_titled /\ album_extras # {} /\ ~extras_ok(album_extras))
  IN artist_ok /\ strong_album_ok

\* lines 380-505 on the normalized texts: the component scores, the gates, the score
gate_scored(t_artist, t_album, c_artist, c_album, has_multi_target, has_collab_marker, artist_set_score, artist_sort_score, label_score, album_token_score, album_ns_score, year_diff, score_cutoff) ==
  [pass |-> gate_decide(t_artist, t_album, c_artist, c_album,
                        SeqToSet(Str_split(t_artist)), SeqToSet(Str_split(c_artist)),
                        has_multi_target, has_collab_marker,
                        artist_set_score, artist_sort_score, album_token_score,
                        album_ns_score, FracMax(album_token_score, album_ns_score),
                        SeqToSet(Str_split(c_album)) \ SeqToSet(Str_split(t_album)),
                        score_cutoff),
   score |-> final_score(label_score, FracMax(album_token_score, album_ns_score), year_diff),
   year_diff |-> year_diff,
   raw |-> FracMax(label_score, FracMax(album_token_score, album_ns_score)),
   artist_direct |-> artist_direct_ok(artist_set_score, artist_sort_score),
   album_score |-> FracMax(album_token_score, album_ns_score)]

\* lines 381-386: the component scores of the normalized texts
gate_normalized(t_artist, t_album, c_artist, c_album, has_multi_target, has_collab_marker, year_diff, score_cutoff) ==
  gate_scored(t_artist, t_album, c_artist, c_album, has_multi_target, has_collab_marker,
              fuzz_token_set_ratio(t_artist, c_artist),
              fuzz_token_sort_ratio(t_artist, c_artist),
              fuzz_token_set_ratio(t_artist \o <<" ">> \o t_album,
                                   c_artist \o <<" ">> \o c_album),
              fuzz_token_set_ratio(t_album, c_album),
              fuzz_ratio(Str_nospace(t_album), Str_nospace(c_album)),
              year_diff, score_cutoff)

\* lines 360-366 and 374-505, one iteration of the loop over the candidates: whether
\* candidate c passes both gates (pass), and the hit it then contributes
gate(target_artist, target_album, c, score_cutoff, target_year) ==
  gate_normalized(normalize_artist(target_artist),
                  normalize_album_for_match(target_album, FALSE),
                  normalize_artist(c.artist),
                  normalize_album_for_match(c.album, TRUE),
                  HasCollabMarker(target_artist),
                  HasCollabMarker(c.artist),
                  year_diff_of(c, target_year),
                  score_cutoff)

AndToken == <<"a", "n", "d">>

\* lines 519-521, 547-549, 567-569: the artist test of the fallback stages
strong_artist(t_artist, c_artist) ==
  /\ ScoreGeq(fuzz_token_set_ratio(t_artist, c_artist), FallbackArtistMin)
  /\ ScoreGeq(fuzz_token_sort_ratio(t_artist, c_artist), FallbackArtistMin)
fallback_artist_ok(target_artist, c) ==
  strong_artist(normalize_artist(target_artist), normalize_text(c.artist))

\* line 518
prefix_tokens_ok(t_album_tokens_list, c_tokens) ==
  /\ Len(c_tokens) > Len(t_album_tokens_list)
  /\ Take(c_tokens, Len(t_album_tokens_list)) = t_album_tokens_list
  /\ c_tokens[Len(t_album_tokens_list) + 1] = AndToken

\* lines 513-522: whether candidate c qualifies for the prefix-compound stage
prefix_hit(target_artist, target_album, c) ==
  /\ prefix_tokens_ok(Str_split(normalize_album_for_match(target_album, FALSE)),
                      Str_split(normalize_album_for_match(c.album, TRUE)))
  /\ fallback_artist_ok(target_artist, c)

\* best_match.strip_years
strip_years(tokens) == SelectSeq(tokens, LAMBDA tok : ~Str_isdigit(tok))

\* lines 541-544: a segment matches when it equals the target tokens once its
\* numeric tokens are dropped, or starts with them
segment_matches(segment, t_album_tokens_list) ==
  \/ strip_years(segment) = t_album_tokens_list
  \/ StartsWith(segment, t_album_tokens_list)

\* c_tokens.index("and")
FirstAnd(c_tokens) ==
  CHOOSE i \in 1..Len(c_tokens) :
    c_tokens[i] = AndToken /\ \A j \in 1..(i - 1) : c_tokens[j] # AndToken

\* lines 533-546, given the position of the first "and"
segment_split_ok(t_album_tokens_list, c_tokens, and_idx) ==
  \/ segment_matches(Take(c_tokens, and_idx - 1), t_album_tokens_list)
  \/ segment_matches(Drop(c_tokens, and_idx), t_album_tokens_list)

\* lines 531-546
segment_tokens_ok(t_album_tokens_list, c_tokens) ==
  /\ AndToken \in SeqToSet(c_tokens)
  /\ segment_split_ok(t_album_tokens_list, c_tokens, FirstAnd(c_tokens))

\* lines 527-557: whether candidate c qualifies for the segment-compound stage
segment_hit(target_artist, target_album, c) ==
  /\ segment_tokens_ok(Str_split(normalize_album_for_match(target_album, FALSE)),
                       Str_split(normalize_album_for_match(c.album, TRUE)))
  /\ fallback_artist_ok(target_artist, c)

\* lines 551-557: the score of a segment-compound hit
segment_score(c, score_cutoff, target_year) ==
  IF target_year # NoneStr /\ Contains(c.album, target_year)
  THEN Max2(FallbackYearScore, score_cutoff)
  ELSE Max2(FallbackScore, score_cutoff)

\* line 566
contains_text_ok(t_album, c_album) ==
  c_album # <<>> /\ t_album # <<>> /\ Contains(c_album, t_album)

\* lines 562-570: whether candidate c qualifies for the containment stage
contains_hit(target_artist, target_album, c) ==
  /\ contains_text_ok(normalize_album_for_match(target_album, FALSE),
                      normalize_album_for_match(c.album, TRUE))
  /\ fallback_artist_ok(target_artist, c)

prefix_candidates(target_artist, target_album, candidates) ==
  IdxSeq({i \in 1..Len(candidates) : prefix_hit(target_artist, target_album, candidates[i])})
segment_candidates(target_artist, target_album, candidates) ==
  IdxSeq({i \in 1..Len(candidates) : segment_hit(target_artist, target_album, candidates[i])})
contains_candidates(target_artist, target_album, candidates) ==
  IdxSeq({i \in 1..Len(candidates) : contains_hit(target_artist, target_album, candidates[i])})

\* best_match.year_bucket
year_bucket(d) == IF d = NoneInt THEN 2 ELSE IF d = 0 THEN 0 ELSE IF d = 1 THEN 1 ELSE 2

\* HitBefore with the score as the only key
HitBefore_by_score(x, y) == FracGt(x.score, y.score)

\* the sort key (year_bucket(t[2]), -t[1]): whether hit x sorts strictly before hit y
HitBefore(x, y) ==
  \/ year_bucket(x.year_diff) < year_bucket(y.year_diff)
  \/ year_bucket(x.year_diff) = year_bucket(y.year_diff) /\ FracGt(x.score, y.score)

\* hits.sort(key=...): a stable sort
RECURSIVE InsertHit(_, _)
InsertHit(x, sorted) ==
  IF sorted = <<>> THEN <<x>>
  ELSE IF HitBefore(x, sorted[1]) THEN <<x>> \o sorted
  ELSE <<sorted[1]>> \o InsertHit(x, Tail(sorted))
RECURSIVE SortHitsAcc(_, _)
SortHitsAcc(hs, acc) ==
  IF hs = <<>> THEN acc ELSE SortHitsAcc(Tail(hs), InsertHit(hs[1], acc))
sort_hits(hs) == SortHitsAcc(hs, <<>>)

\* the result of best_match: None, or (candidate, score); the candidate is named by
\* its position in the candidate list, via names the return statement taken
NoMatch(via) == [found |-> FALSE, idx |-> 0, score |-> FracOfInt(0), via |-> via]
Match(idx, score, via) == [found |-> TRUE, idx |-> idx, score |-> score, via |-> via]

\* line 505: the hit a passing candidate contributes
hit_of(i, g) == [idx |-> i, score |-> g.score, year_diff |-> g.year_diff]
hits_of(passing, target_artist, target_album, candidates, score_cutoff, target_year) ==
  <<>> \o [k \in 1..Len(passing) |->
            hit_of(passing[k], gate(target_artist, target_album, candidates[passing[k]],
                                    score_cutoff, target_year))]

\* lines 374-505: the hits of the gated stage, in candidate order
gated_hits(target_artist, target_album, candidates, score_cutoff, target_year) ==
  hits_of(IdxSeq({i \in 1..Len(candidates) :
                    gate(target_artist, target_album, candidates[i], score_cutoff,
                         target_year).pass}),
          target_artist, target_album, candidates, score_cutoff, target_year)

\* lines 586-591: selection among the hits
return_top(top, score_cutoff) ==
  IF ScoreGeq(top.score, score_cutoff)
  THEN Match(top.idx, top.score, "gated")
  ELSE NoMatch("gated")
select_hit(hits, score_cutoff) == return_top(sort_hits(hits)[1], score_cutoff)

\* unique_hit taking the first of several hits
unique_hit_first(found, score, via, via_none) ==
  IF Len(found) >= 1 THEN Match(found[1], FracOfInt(score), via) ELSE NoMatch(via_none)

\* lines 523-524, 571-574: a stage returns its hit when it has exactly one
unique_hit(found, score, via, via_none) ==
  IF Len(found) = 1 THEN Match(found[1], FracOfInt(score), via) ELSE NoMatch(via_none)

\* prefix_stage reporting its base score whatever the cutoff
prefix_stage_base_score(target_artist, target_album, candidates, score_cutoff) ==
  unique_hit(prefix_candidates(target_artist, target_album, candidates),
             FallbackScore, "prefix", "prefix")

\* lines 511-524
prefix_stage(target_artist, target_album, candidates, score_cutoff) ==
  unique_hit(prefix_candidates(target_artist, target_album, candidates),
             Max2(FallbackScore, score_cutoff), "prefix", "prefix")

\* lines 526-559
unique_segment_hit(found, candidates, score_cutoff, target_year) ==
  IF Len(found) = 1
  THEN Match(found[1],
             FracOfInt(segment_score(candidates[found[1]], score_cutoff, target_year)),
             "segment")
  ELSE NoMatch("segment")
segment_stage(target_artist, target_album, candidates, score_cutoff, target_year) ==
  unique_segment_hit(segment_candidates(target_artist, target_album, candidates),
                     candidates, score_cutoff, target_year)

\* lines 561-574
contains_stage(target_artist, target_album, candidates, score_cutoff) ==
  unique_hit(contains_candidates(target_artist, target_album, candidates),
             Max2(FallbackScore, score_cutoff), "contains", "none")

\* lines 507-574: the fallback chain
first_found(p, sg, cn) == IF p.found THEN p ELSE IF sg.found THEN sg ELSE cn
fallback_chain(target_artist, target_album, candidates, score_cutoff, target_year) ==
  first_found(prefix_stage(target_artist, target_album, candidates, score_cutoff),
              segment_stage(target_artist, target_album, candidates, score_cutoff, target_year),
              contains_stage(target_artist, target_album, candidates, score_cutoff))

\* lines 507 and 576-591: the fallback chain when the loop left no hit
select_or_fallback(hits, target_artist, target_album, candidates, score_cutoff, target_year) ==
  IF hits = <<>>
  THEN fallback_chain(target_artist, target_album, candidates, score_cutoff, target_year)
  ELSE select_hit(hits, score_cutoff)

best_match(target_artist, target_album, candidates, score_cutoff, target_year) ==
  IF candidates = <<>> THEN NoMatch("empty")
  ELSE select_or_fallback(
         gated_hits(target_artist, target_album, candidates, score_cutoff, target_year),
         target_artist, target_album, candidates, score_cutoff, target_year)

(***************************************************************************)
(* Paths, the file system, the candidate index and the cache               *)
(***************************************************************************)
\* the components of a path between its separators
PathNames(p) ==
  LET starts == IdxSeq({i \in 1..Len(p) : p[i] # "/" /\ (i = 1 \/ p[i - 1] = "/")})
      end(i) == CHOOSE k \in i..Len(p) :
                  /\ \A m \in i..k : p[m] # "/"
                  /\ (k = Len(p) \/ p[k + 1] = "/")
  IN <<>> \o [n \in 1..Len(starts) |-> SubSeq(p, starts[n], end(starts[n]))]

\* Path(p).parts of an absolute path: the root, then the components
Path_parts(p) == << <<"/">> >> \o PathNames(p)

\* str(root_p / f)
PathJoin(dir, f) == dir \o <<"/">> \o f

LastOf(seq) == seq[Len(seq)]
\* Path(p).name and Path(p).parent of a path of at least one component
Path_name(p) == LastOf(PathNames(p))
Path_parent(p) == Take(p, Len(p) - Len(Path_name(p)) - 1)

\* Path(f).suffix: from the last dot, unless it is the first or the last character
LastDot(f) ==
  IF \E i \in 1..Len(f) : f[i] = "."
  THEN CHOOSE i \in 1..Len(f) : f[i] = "." /\ \A j \in (i + 1)..Len(f) : f[j] # "."
  ELSE 0
SuffixFrom(f, i) == IF 1 < i /\ i < Len(f) THEN Drop(f, i - 1) ELSE <<>>
Path_suffix(f) == SuffixFrom(f, LastDot(f))

AUDIO_EXTS ==
  { <<".","f","l","a","c">>, <<".","m","p","3">>, <<".","m","4","a">>,
    <<".","w","a","v">>, <<".","a","p","e">>, <<".","o","g","g">> }

is_audio(f) == Str_lower(Path_suffix(f)) \in AUDIO_EXTS
is_cue(f) == Str_lower(Path_suffix(f)) = <<".","c","u","e">>

\* "#recycle" in d.lower()
is_recycle(d) == Contains(Str_lower(d), <<"#","r","e","c","y","c","l","e">>)

\* disc_folder_re: a disc word, then nothing or optional spaces, an optional one of
\* - and _, and one or more of a-z0-9 (case ignored)
DiscWords ==
  { <<"c","d">>, <<"d","i","s","c">>, <<"d","i","s","k">>, <<"l","p">>,
    <<"s","i","d","e">>, <<"b","o","n","u","s">>, <<"e","x","t","r","a">>,
    <<"e","x","t","r","a","s">>, <<"v","i","n","y","l">>,
    <<"c","a","s","s","e","t","t","e">>, <<"t","a","p","e">> }
IsAlnumLower(c) ==
  \/ c \in Digits
  \/ (c \in SeqToSet(Alphabet) /\ Code(c) >= Code("a") /\ Code(c) <= Code("z"))
AllAlnum(r) == r # <<>> /\ \A i \in 1..Len(r) : IsAlnumLower(r[i])
DiscTail(r) ==
  \/ r = <<>>
  \/ AllAlnum(r)
  \/ (r[1] \in {"-", "_"} /\ AllAlnum(Tail(r)))
disc_folder_match(name) ==
  \E w \in DiscWords :
    /\ StartsWith(name, w)
    /\ DiscTail(Str_lstrip(Drop(name, Len(w))))
is_disc_folder(name) == disc_folder_match(Str_lower(Str_strip(name)))

\* base.strip().strip('"').strip("'")
RECURSIVE StripChar(_, _)
StripChar(s, c) ==
  IF s # <<>> /\ s[1] = c THEN StripChar(Tail(s), c)
  ELSE IF s # <<>> /\ s[Len(s)] = c THEN StripChar(Take(s, Len(s) - 1), c)
  ELSE s
sanitize_path(base) == StripChar(StripChar(Str_strip(base), "\""), "'")

\* the directories of the file system a run sees, in the order os.walk lists them, each
\* with the names of the files it directly contains
Fs ==
  << [path |-> <<"/","m">>, files |-> <<>>],
     [path |-> <<"/","m","/","E","g","g">>, files |-> <<>>],
     [path |-> <<"/","m","/","E","g","g","/","C","o","l","o","u","r","i","n","g","s">>,
      files |-> << <<"2",".","m","p","3">>, <<"1",".","M","P","3">>, <<"c",".","j","p","g">> >>],
     [path |-> <<"/","m","/","E","g","g","/","R","e","d"," ","S","k","y"," ","a","n","d"," ","B","l","u","e">>,
      files |-> << <<"r",".","f","l","a","c">>, <<"r",".","c","u","e">> >>],
     [path |-> <<"/","m","/","#","R","e","c","y","c","l","e">>, files |-> <<>>],
     [path |-> <<"/","m","/","#","R","e","c","y","c","l","e","/","Z","e","r","o">>,
      files |-> << <<"z",".","m","p","3">> >>],
     [path |-> <<"/","s">>, files |-> <<>>],
     [path |-> <<"/","s","/","E","g","g">>, files |-> <<>>],
     [path |-> <<"/","s","/","E","g","g","/","[","1","9","7","0","]"," ","C","o","l","o","u","r","i","n","g","s">>,
      files |-> << <<"n",".","t","x","t">> >>],
     [path |-> <<"/","s","/","E","g","g","/","[","1","9","7","0","]"," ","C","o","l","o","u","r","i","n","g","s","/","C","D","1">>,
      files |-> << <<"1",".","f","l","a","c">> >>],
     [path |-> <<"/","s","/","O","m">>, files |-> <<>>],
     [path |-> <<"/","s","/","O","m","/","N","u">>,
      files |-> << <<"b",".","o","g","g">>, <<"a",".","o","g","g">> >>],
     [path |-> <<"/","x">>, files |-> <<>>],
     [path |-> <<"/","x","/","E","g","g","-","L","i","v","e">>,
      files |-> << <<"l",".","m","p","3">> >>],
     [path |-> <<"/","x","/","E","g","g","-","L","i","v","e","/","k">>,
      files |-> << <<"k",".","w","a","v">> >>],
     [path |-> <<"/","x","/","E","g","g","-","L","i","v","e","/","#","r","e","c","y","c","l","e">>,
      files |-> << <<"x",".","m","p","3">> >> ] >>

DirPaths == {Fs[i].path : i \in 1..Len(Fs)}

\* lines 222-237: artist and album of a directory, stepping up from a disc folder
derive_names(parts) ==
  IF Len(parts) < 2 THEN [artist |-> <<>>, album |-> <<>>]
  ELSE IF is_disc_folder(parts[Len(parts)]) /\ Len(parts) >= 3
       THEN [artist |-> parts[Len(parts) - 2], album |-> parts[Len(parts) - 1]]
       ELSE [artist |-> parts[Len(parts) - 1], album |-> parts[Len(parts)]]

\* lines 239-240: the files of one directory with a wanted suffix, as paths
files_with(d, cue) ==
  LET keep == IdxSeq({i \in 1..Len(d.files) :
                        IF cue THEN is_cue(d.files[i]) ELSE is_audio(d.files[i])})
  IN <<>> \o [k \in 1..Len(keep) |-> PathJoin(d.path, d.files[keep[k]])]

\* lines 242-248
make_candidate(d, names) ==
  [root |-> d.path, artist |-> names.artist, album |-> names.album,
   audio_files |-> files_with(d, FALSE), cue_files |-> files_with(d, TRUE)]

\* lines 215-220: os.walk reaches d from top, and no part of d is a recycle folder
under(path, top) == path = top \/ StartsWith(path, top \o <<"/">>)
walk_visits(d, top) ==
  /\ under(d.path, top)
  /\ \A n \in SeqToSet(PathNames(d.path)) : ~is_recycle(n)

\* every directory the walk visits, with or without files of its own
has_any_entry(d) == TRUE

\* line 241
has_files(d) == \E i \in 1..Len(d.files) : is_audio(d.files[i]) \/ is_cue(d.files[i])

\* lines 215-248 for one existing base path
index_walk(top) ==
  LET keep == IdxSeq({i \in 1..Len(Fs) : walk_visits(Fs[i], top) /\ has_files(Fs[i])})
  IN <<>> \o [k \in 1..Len(keep) |->
               make_candidate(Fs[keep[k]], derive_names(Path_parts(Fs[keep[k]].path)))]

\* lines 205-214
index_base(base, sanitized) ==
  IF base = <<>> \/ sanitized \notin DirPaths THEN <<>> ELSE index_walk(sanitized)

RECURSIVE index_music_library(_)
index_music_library(base_paths) ==
  IF base_paths = <<>> THEN <<>>
  ELSE index_base(base_paths[1], sanitize_path(base_paths[1]))
         \o index_music_library(Tail(base_paths))

\* index_music_library on the file system of the moment: the folders in gone, and all
\* below them, have been deleted since
walk_library(base_paths, gone) ==
  LET found == index_music_library(base_paths)
      keep == IdxSeq({k \in 1..Len(found) : \A g \in gone : ~under(found[k].root, g)})
  IN <<>> \o [n \in 1..Len(keep) |-> found[keep[n]]]

\* unique_preserve_order
\* the list as it is, duplicates and all
keep_duplicates(seq) == seq

RECURSIVE unique_acc(_, _)
unique_acc(seq, out) ==
  IF seq = <<>> THEN out
  ELSE unique_acc(Tail(seq),
                  IF seq[1] \in SeqToSet(out) THEN out ELSE Append(out, seq[1]))
unique_preserve_order(seq) == unique_acc(seq, <<>>)

\* the cue files and the audio files together
collect_cues_and_audio(candidate) ==
  Sorted(unique_preserve_order(candidate.cue_files) \o candidate.audio_files)

collect_album_tracks(candidate) ==
  IF candidate.cue_files # <<>>
  THEN Sorted(unique_preserve_order(candidate.cue_files))
  ELSE Sorted(candidate.audio_files)

\* "\n".join of lines, each followed by a line feed
RECURSIVE write_lines(_)
write_lines(lines) ==
  IF lines = <<>> THEN <<>> ELSE lines[1] \o <<"\n">> \o write_lines(Tail(lines))

\* lines 597-600: the text make_m3u8 writes, the header and a line per track
make_m3u8(tracks) == write_lines(<< <<"#","E","X","T","M","3","U">> >> \o tracks)

\* the lines of a text file read back: the runs between line feeds
RECURSIVE read_lines(_)
read_lines(text) ==
  IF text = <<>> THEN <<>>
  ELSE IF \E i \in 1..Len(text) : text[i] = "\n"
       THEN LET i == CHOOSE k \in 1..Len(text) :
                       text[k] = "\n" /\ \A m \in 1..(k - 1) : text[m] # "\n"
            IN <<Take(text, i - 1)>> \o read_lines(Drop(text, i + 1))
       ELSE <<text>>

\* a cache file: absent, unreadable, not JSON, JSON that is no list, or a list of
\* candidates; writing it succeeds or fails
NoCacheFile == [kind |-> "absent", data |-> <<>>, writable |-> TRUE]
UnreadableCache == [kind |-> "unreadable", data |-> <<>>, writable |-> TRUE]
CorruptCache == [kind |-> "corrupt", data |-> <<>>, writable |-> TRUE]
NotListCache == [kind |-> "notlist", data |-> <<>>, writable |-> TRUE]
LockedCache == [kind |-> "corrupt", data |-> <<>>, writable |-> FALSE]
ListCache(cands) == [kind |-> "list", data |-> cands, writable |-> TRUE]

\* line 257: read_text or json.loads raises
read_raises(file) == file.kind \in {"unreadable", "corrupt"}

\* what a call gives its caller: an exception, None, or a list
Raised == [raised |-> TRUE, none |-> FALSE, list |-> <<>>]
ReturnedNone == [raised |-> FALSE, none |-> TRUE, list |-> <<>>]
ReturnedList(l) == [raised |-> FALSE, none |-> FALSE, list |-> l]

\* load_cached_candidates without its try/except
load_uncaught(file) ==
  IF file.kind = "absent" THEN ReturnedNone
  ELSE IF read_raises(file) THEN Raised
  ELSE IF file.kind = "list" THEN ReturnedList(file.data)
  ELSE ReturnedNone

\* a load that finds no cache, whatever the file holds
load_ignoring_cache(file) == ReturnedNone

\* lines 253-262: the list of the file, or None when the file is absent, reading it
\* raises (the except branch) or it holds no list
load_cached_candidates(file) ==
  IF file.kind = "absent" THEN ReturnedNone
  ELSE IF read_raises(file) THEN ReturnedNone
  ELSE IF file.kind = "list" THEN ReturnedList(file.data)
  ELSE ReturnedNone

\* lines 268-277: the payload written for the candidates
cache_payload(cands) ==
  <<>> \o [i \in 1..Len(cands) |->
            [root |-> cands[i].root, artist |-> cands[i].artist, album |-> cands[i].album,
             audio_files |-> cands[i].audio_files, cue_files |-> cands[i].cue_files]]
\* lines 265-279: the file after the call, and whether the call raised; a failed
\* write_text ends in the except branch and leaves the file as it was
save_candidates_cache(cands, file) ==
  [raised |-> FALSE,
   file |-> IF file.writable THEN ListCache(cache_payload(cands)) ELSE file]

(***************************************************************************)
(* The exceptions file: forced resolutions of entries to folders           *)
(***************************************************************************)
AllSpaces(s) == \A i \in 1..Len(s) : IsSpace(s[i])

\* s\.?\s*t, the second alternative without its last optional dot
dot_form_core(u) ==
  /\ Len(u) >= 2
  /\ u[1] = "s"
  /\ u[Len(u)] = "t"
  /\ \/ AllSpaces(SubSeq(u, 2, Len(u) - 1))
     \/ (Len(u) >= 3 /\ u[2] = "." /\ AllSpaces(SubSeq(u, 3, Len(u) - 1)))
\* re.fullmatch(r"s\s*/\s*t|s\.?\s*t\.?", token)
self_titled_token(token) ==
  \/ /\ Len(token) >= 3
     /\ token[1] = "s"
     /\ token[Len(token)] = "t"
     /\ Str_nospace(SubSeq(token, 2, Len(token) - 1)) = <<"/">>
  \/ dot_form_core(token)
  \/ (token # <<>> /\ token[Len(token)] = "." /\ dot_form_core(Take(token, Len(token) - 1)))

resolve_self_titled(album, artist) ==
  IF self_titled_token(Str_lower(Str_strip(album))) THEN Str_strip(artist) ELSE album

\* lines 772-776: a title ending with "(YYYY)" loses it
ends_with_year(title) ==
  /\ Len(title) >= 6
  /\ title[Len(title)] = ")"
  /\ title[Len(title) - 5] = "("
  /\ \A i \in (Len(title) - 4)..(Len(title) - 1) : IsDigit(title[i])
peel_year(title) ==
  IF ends_with_year(title) THEN Str_rstrip(Take(title, Len(title) - 6)) ELSE title

\* lines 778 and 801: the key of the exceptions map
entry_key(artist, album) == <<normalize_artist(artist), normalize_text(album)>>

\* lines 777-779 for one line of the file, given as its artist, title and folder texts
exception_key(line) ==
  entry_key(line.artist, resolve_self_titled(peel_year(line.title), line.artist))

\* lines 746-779: the dict built from the lines, a later line replacing an earlier one
RECURSIVE build_exceptions(_, _)
build_exceptions(lines, map) ==
  IF lines = <<>> THEN map
  ELSE build_exceptions(Tail(lines),
         [k \in DOMAIN map \cup {exception_key(lines[1])} |->
            IF k = exception_key(lines[1]) THEN lines[1].folder ELSE map[k]])
EmptyMap == [k \in {} |-> <<>>]
load_exceptions(file) ==
  IF file.exists THEN build_exceptions(file.lines, EmptyMap) ELSE EmptyMap

\* re.sub(r"\s*-\s*", "-", name): the spaces around every hyphen go
next_is_dash(name, i) ==
  \E j \in (i + 1)..Len(name) : name[j] = "-" /\ \A k \in i..(j - 1) : IsSpace(name[k])
prev_is_dash(name, i) ==
  \E j \in 1..(i - 1) : name[j] = "-" /\ \A k \in (j + 1)..i : IsSpace(name[k])
collapse_dashes(name) ==
  LET keep == IdxSeq({i \in 1..Len(name) :
                        ~(IsSpace(name[i]) /\ (next_is_dash(name, i) \/ prev_is_dash(name, i)))})
  IN <<>> \o [k \in 1..Len(keep) |-> name[keep[k]]]
\* re.sub(r"-", " - ", name)
expand_dashes(name) == ReplaceChar(name, "-", <<" ", "-", " ">>)
dash_variants(name) == {name, collapse_dashes(name), expand_dashes(name)}

\* lines 818-821: the variants that exist
existing_variants(parent, name) ==
  {PathJoin(parent, nv) : nv \in dash_variants(name)} \cap DirPaths
\* lines 823-828: the sibling directories with the same normalized name
matching_siblings(parent, target_tok) ==
  {d \in DirPaths : Path_parent(d) = parent /\ normalize_text(Path_name(d)) = target_tok}

\* _exists_or_try_variants: the directories it can return (none: it returns None). The
\* order in which a set of names and a directory listing are visited is not fixed, so
\* where several qualify any of them can be returned.
first_nonempty(a, b) == IF a # {} THEN a ELSE b
exists_or_try_variants(p) ==
  IF p \in DirPaths THEN {p}
  ELSE first_nonempty(existing_variants(Path_parent(p), Path_name(p)),
                      matching_siblings(Path_parent(p), normalize_text(Path_name(p))))

\* lines 839-842: os.walk from the resolved folder, recycle folders below it pruned
walk_below(d, top) ==
  /\ under(d.path, top)
  /\ \A n \in SeqToSet(PathNames(Drop(d.path, Len(top)))) : ~is_recycle(n)
RECURSIVE gather_files(_, _, _)
gather_files(i, top, cue) ==
  IF i > Len(Fs) THEN <<>>
  ELSE (IF walk_below(Fs[i], top) THEN files_with(Fs[i], cue) ELSE <<>>)
         \o gather_files(i + 1, top, cue)
\* line 845
prefer_cues(cue_files, audio_files) ==
  IF cue_files # <<>> THEN Sorted(unique_preserve_order(cue_files))
  ELSE Sorted(unique_preserve_order(audio_files))
exception_tracks(resolved) ==
  prefer_cues(gather_files(1, resolved, TRUE), gather_files(1, resolved, FALSE))

\* lines 908-910: a line of the not-found log
not_found_line(e) == e.artist \o <<" ", "-", " ">> \o e.album
    \o (IF e.year # NoneStr THEN <<" ", "(">> \o e.year \o <<")">> ELSE <<>>)

(***************************************************************************)
(* The inputs of best_match explored by the model                          *)
(***************************************************************************)
\* longest candidate list
MaxCands == 2

Str_Egg == <<"E","g","g">>
Str_1970 == <<"1","9","7","0">>
Str_1971 == <<"1","9","7","1">>

\* the fields of a candidate that best_match reads
Cand_Zes1970 ==
  [root |-> <<"/","m","/","E","g","g","/","[","1","9","7","0","]"," ","C","o","l","o","r","i","n","g","z","e","s">>,
   artist |-> <<"E","g","g">>,
   album |-> <<"[","1","9","7","0","]"," ","C","o","l","o","r","i","n","g","z","e","s">>]
Cand_Plain ==
  [root |-> <<"/","m","/","E","g","g","/","C","o","l","o","u","r","i","n","g","s">>,
   artist |-> <<"E","g","g">>,
   album |-> <<"C","o","l","o","u","r","i","n","g","s">>]
Cand_Zes1971 ==
  [root |-> <<"/","m","/","E","g","g","/","[","1","9","7","1","]"," ","C","o","l","o","r","i","n","g","z","e","s">>,
   artist |-> <<"E","g","g">>,
   album |-> <<"[","1","9","7","1","]"," ","C","o","l","o","r","i","n","g","z","e","s">>]
Cand_Exact1975 ==
  [root |-> <<"/","m","/","E","g","g","/","[","1","9","7","5","]"," ","C","o","l","o","u","r","i","n","g","s">>,
   artist |-> <<"E","g","g">>,
   album |-> <<"[","1","9","7","5","]"," ","C","o","l","o","u","r","i","n","g","s">>]
Cand_PathYear ==
  [root |-> <<"/","1","9","7","0","/","E","g","g","/","C","o","l","o","u","r","i","n","g","s">>,
   artist |-> <<"E","g","g">>,
   album |-> <<"C","o","l","o","u","r","i","n","g","s">>]
Cand_RedSkyAndBlue ==
  [root |-> <<"/","m","/","E","g","g","/","R","e","d"," ","S","k","y"," ","a","n","d"," ","B","l","u","e">>,
   artist |-> <<"E","g","g">>,
   album |-> <<"R","e","d"," ","S","k","y"," ","a","n","d"," ","B","l","u","e">>]
Cand_BlueAndRedSky ==
  [root |-> <<"/","m","/","E","g","g","/","B","l","u","e"," ","&"," ","R","e","d"," ","S","k","y">>,
   artist |-> <<"E","g","g">>,
   album |-> <<"B","l","u","e"," ","&"," ","R","e","d"," ","S","k","y">>]
Cand_RedSkyLive ==
  [root |-> <<"/","m","/","E","g","g","/","R","e","d"," ","S","k","y"," ","L","i","v","e">>,
   artist |-> <<"E","g","g">>,
   album |-> <<"R","e","d"," ","S","k","y"," ","L","i","v","e">>]
Cand_RedYearSky ==
  [root |-> <<"/","m","/","E","g","g","/","R","e","d"," ","1","9","9","9"," ","S","k","y"," ","a","n","d"," ","B","l","u","e">>,
   artist |-> <<"E","g","g">>,
   album |-> <<"R","e","d"," ","1","9","9","9"," ","S","k","y"," ","a","n","d"," ","B","l","u","e">>]
Cand_RedSkyAndMore ==
  [root |-> <<"/","m","/","E","g","g","/","[","1","9","7","0","]"," ","R","e","d"," ","S","k","y"," ","a","n","d"," ","M","o","r","e">>,
   artist |-> <<"E","g","g">>,
   album |-> <<"[","1","9","7","0","]"," ","R","e","d"," ","S","k","y"," ","a","n","d"," ","M","o","r","e">>]
Cand_OtherArtist ==
  [root |-> <<"/","m","/","F","l","i","e","d"," ","E","g","g","/","R","e","d"," ","S","k","y"," ","a","n","d"," ","B","l","u","e">>,
   artist |-> <<"F","l","i","e","d"," ","E","g","g">>,
   album |-> <<"R","e","d"," ","S","k","y"," ","a","n","d"," ","B","l","u","e">>]
Cand_ColorHumano ==
  [root |-> <<"/","m","/","C","o","l","o","r"," ","H","u","m","a","n","o","/","C","o","l","o","r"," ","H","u","m","a","n","o">>,
   artist |-> <<"C","o","l","o","r"," ","H","u","m","a","n","o">>,
   album |-> <<"C","o","l","o","r"," ","H","u","m","a","n","o">>]

Cand_Quatermass2RedSky ==
  [root |-> <<"/","m","/","Q","u","a","t","e","r","m","a","s","s"," ","2","/","R","e","d"," ","S","k","y">>,
   artist |-> <<"Q","u","a","t","e","r","m","a","s","s"," ","2">>,
   album |-> <<"R","e","d"," ","S","k","y">>]
Cand_Quatermass2Compound ==
  [root |-> <<"/","m","/","Q","u","a","t","e","r","m","a","s","s"," ","2","/","R","e","d"," ","S","k","y"," ","a","n","d"," ","B","l","u","e">>,
   artist |-> <<"Q","u","a","t","e","r","m","a","s","s"," ","2">>,
   album |-> <<"R","e","d"," ","S","k","y"," ","a","n","d"," ","B","l","u","e">>]
Cand_QuatermassLive ==
  [root |-> <<"/","m","/","Q","u","a","t","e","r","m","a","s","s","/","R","e","d"," ","S","k","y"," ","L","i","v","e">>,
   artist |-> <<"Q","u","a","t","e","r","m","a","s","s">>,
   album |-> <<"R","e","d"," ","S","k","y"," ","L","i","v","e">>]

Cand_WayColourings ==
  [root |-> <<"/","m","/","D","a","r","r","y","l"," ","W","a","y","/","C","o","l","o","u","r","i","n","g","s">>,
   artist |-> <<"D","a","r","r","y","l"," ","W","a","y">>,
   album |-> <<"C","o","l","o","u","r","i","n","g","s">>]
Cand_WayColorings ==
  [root |-> <<"/","m","/","D","a","r","r","y","l"," ","W","a","y","/","C","o","l","o","r","i","n","g","s">>,
   artist |-> <<"D","a","r","r","y","l"," ","W","a","y">>,
   album |-> <<"C","o","l","o","r","i","n","g","s">>]
Cand_WayPlusWolfColorings ==
  [root |-> <<"/","m","/","D","a","r","r","y","l"," ","W","a","y"," ","+"," ","W","o","l","f","/","C","o","l","o","r","i","n","g","s">>,
   artist |-> <<"D","a","r","r","y","l"," ","W","a","y"," ","+"," ","W","o","l","f">>,
   album |-> <<"C","o","l","o","r","i","n","g","s">>]

Cand_AsiaUSRedSky ==
  [root |-> <<"/","m","/","A","s","i","a"," ","(","U","S",")","/","R","e","d"," ","S","k","y">>,
   artist |-> <<"A","s","i","a"," ","(","U","S",")">>,
   album |-> <<"R","e","d"," ","S","k","y">>]
Cand_AsiaUSCompound ==
  [root |-> <<"/","m","/","A","s","i","a"," ","(","U","S",")","/","R","e","d"," ","S","k","y"," ","a","n","d"," ","B","l","u","e">>,
   artist |-> <<"A","s","i","a"," ","(","U","S",")">>,
   album |-> <<"R","e","d"," ","S","k","y"," ","a","n","d"," ","B","l","u","e">>]
Cand_AsiaCompound ==
  [root |-> <<"/","m","/","A","s","i","a","/","R","e","d"," ","S","k","y"," ","a","n","d"," ","B","l","u","e">>,
   artist |-> <<"A","s","i","a">>,
   album |-> <<"R","e","d"," ","S","k","y"," ","a","n","d"," ","B","l","u","e">>]

Target_Colourings == [artist |-> Str_Egg, album |-> <<"C","o","l","o","u","r","i","n","g","s">>]
Target_RedSky == [artist |-> Str_Egg, album |-> <<"R","e","d"," ","S","k","y">>]
Target_EmptyAlbum == [artist |-> Str_Egg, album |-> <<"!","!","!">>]
Target_EmptyArtist == [artist |-> <<>>, album |-> <<"R","e","d"," ","S","k","y">>]
Target_Quatermass == [artist |-> <<"Q","u","a","t","e","r","m","a","s","s">>, album |-> <<"R","e","d"," ","S","k","y">>]
Target_WolfColourings == [artist |-> <<"D","a","r","r","y","l"," ","W","a","y","'","s"," ","W","o","l","f">>, album |-> <<"C","o","l","o","u","r","i","n","g","s">>]
Target_WayColourings == [artist |-> <<"D","a","r","r","y","l"," ","W","a","y">>, album |-> <<"C","o","l","o","u","r","i","n","g","s">>]
Target_Asia == [artist |-> <<"A","s","i","a">>, album |-> <<"R","e","d"," ","S","k","y">>]
Target_Color == [artist |-> <<"C","o","l","o","r"," ","H","u","m","a","n","o">>, album |-> <<"C","o","l","o","r">>]

\* each family: targets, and the library folders that resemble them
Families ==
  { [targets |-> {Target_Colourings},
     pool |-> {Cand_Zes1970, Cand_Plain, Cand_Zes1971, Cand_Exact1975, Cand_PathYear}],
    [targets |-> {Target_RedSky, Target_EmptyAlbum, Target_EmptyArtist},
     pool |-> {Cand_RedSkyAndBlue, Cand_BlueAndRedSky, Cand_RedSkyLive,
               Cand_RedYearSky, Cand_RedSkyAndMore, Cand_OtherArtist}],
    [targets |-> {Target_Color},
     pool |-> {Cand_ColorHumano}],
    [targets |-> {Target_Quatermass},
     pool |-> {Cand_Quatermass2RedSky, Cand_Quatermass2Compound, Cand_QuatermassLive}],
    [targets |-> {Target_WolfColourings, Target_WayColourings},
     pool |-> {Cand_WayColourings, Cand_WayColorings, Cand_WayPlusWolfColorings}],
    [targets |-> {Target_Asia},
     pool |-> {Cand_AsiaUSRedSky, Cand_AsiaUSCompound, Cand_AsiaCompound}] }

\* the candidate lists of length at most MaxCands over a pool
Lists(pool) == UNION {[1..n -> pool] : n \in 0..MaxCands}

Scenarios ==
  UNION {{[target |-> t, candidates |-> l] : t \in f.targets, l \in Lists(f.pool)} :
           f \in Families}

\* --score-cutoff: the default, a stricter one, and one beyond the documented 0-100
Cutoffs == {85, 96, 150}
TargetYears == {NoneStr, Str_1970}

(***************************************************************************)
(* best_match as a state machine: one step per loop iteration or stage     *)
(***************************************************************************)
VARIABLES
  target_artist, target_album, target_year, score_cutoff, candidates,
  bm_pc,      \* position in best_match
  ci,         \* index of the next candidate of the gating loop
  hits,       \* hits collected by the gating loop
  bm_result   \* the value returned

bm_vars == <<target_artist, target_album, target_year, score_cutoff, candidates,
             bm_pc, ci, hits, bm_result>>
bm_inputs == <<target_artist, target_album, target_year, score_cutoff, candidates>>

VARIABLES
  args,                  \* the parsed command line
  entries,               \* the de-duplicated entries
  exceptions_file,       \* <out>-exceptions.txt
  primary_cache,         \* primary.tmp
  secondary_cache,       \* secondary.tmp
  exceptions_map,
  primary_candidates,
  secondary_candidates,
  main_pc,               \* position in main
  idx,                   \* 1-based position of the primary loop
  rem_i,                 \* position of the secondary loop in remaining
  bm,                    \* the result of the last best_match call
  remaining,
  all_tracks,
  matched_count,
  not_found,
  match_log,             \* the "Match (...)" log lines, each with the tracks it added
  not_found_file,
  playlist,
  argv,                  \* the command line: --primary if given, --dry-run, --list-file
  log_file,              \* <out>-log.txt: "absent", "old" or "fresh"
  exit_code,             \* the status of sys.exit, NoneInt while main has not exited
  run,                   \* the number of the run, of runs one after another
  removed,               \* the album folders deleted from the libraries since the start
  walked                 \* the library roots the run has walked

run_inputs == <<argv, log_file, exit_code, run, removed>>
main_inputs == <<args, entries, exceptions_file, run_inputs>>
main_caches == <<primary_cache, secondary_cache>>
main_loaded == <<exceptions_map, primary_candidates, secondary_candidates, walked>>
main_loop == <<idx, rem_i, bm, remaining>>
main_results == <<all_tracks, matched_count, not_found, match_log>>
main_outputs == <<not_found_file, playlist>>
main_vars == <<main_inputs, main_caches, main_loaded, main_pc, main_loop, main_results,
               main_outputs>>

VARIABLES
  dd_input,      \* the entries handed to dedupe_entries, as they were at the call
  dd_entries,    \* the entry dicts, which dedupe_entries updates in place
  dd_cutoff,
  dd_pc,         \* position in dedupe_entries
  grouped,       \* the groups, each the artist key and the positions of its entries
  dd_g,          \* position of the outer loop in grouped
  dd_j,          \* position of the inner loop in the group's items
  kept,
  dd_result,
  dd_pass,       \* 1 in the first call, 2 in a second call on the first one's result
  dd_first       \* in a second call: the list the first call returned

dd_inputs == <<dd_input, dd_cutoff, dd_pass, dd_first>>
dd_vars == <<dd_inputs, dd_entries, dd_pc, grouped, dd_g, dd_j, kept, dd_result>>

VARIABLES
  call_fn,       \* the function called on its own
  call_arg,      \* its argument
  call_pc,
  call_out,      \* the value it returned
  call_back      \* what a second step made of that value

call_vars == <<call_fn, call_arg, call_pc, call_out, call_back>>

lib_vars == <<dd_vars, call_vars>>

vars == <<bm_vars, main_vars, lib_vars>>

\* dedupe_entries is not running
IdleDedupe ==
  /\ dd_input = <<>>
  /\ dd_entries = <<>>
  /\ dd_cutoff = 0
  /\ dd_pc = "idle"
  /\ grouped = <<>>
  /\ dd_g = 1
  /\ dd_j = 1
  /\ kept = <<>>
  /\ dd_result = <<>>
  /\ dd_pass = 1
  /\ dd_first = <<>>

\* no function is called on its own
IdleCalls ==
  /\ call_fn = "none"
  /\ call_arg = <<>>
  /\ call_pc = "idle"
  /\ call_out = <<>>
  /\ call_back = <<>>

IdleLib == IdleDedupe /\ IdleCalls

CallMatch ==
  /\ \E sc \in Scenarios :
       /\ target_artist = sc.target.artist
       /\ target_album = sc.target.album
       /\ candidates = sc.candidates
  /\ target_year \in TargetYears
  /\ score_cutoff \in Cutoffs
  /\ bm_pc = "start"
  /\ ci = 1
  /\ hits = <<>>
  /\ bm_result = NoMatch("running")

\* lines 368-369
ReturnNoCandidates ==
  /\ bm_pc = "start"
  /\ candidates = <<>>
  /\ bm_pc' = "done"
  /\ bm_result' = NoMatch("empty")
  /\ UNCHANGED <<lib_vars, main_vars, bm_inputs, ci, hits>>

\* lines 372-374
EnterLoop ==
  /\ bm_pc = "start"
  /\ candidates # <<>>
  /\ bm_pc' = "loop"
  /\ UNCHANGED <<lib_vars, main_vars, bm_inputs, ci, hits, bm_result>>

\* lines 471-472 and 505
append_hit(hs, i, g) == IF g.pass THEN Append(hs, hit_of(i, g)) ELSE hs

\* lines 374-505: one iteration of the gating loop
GateCandidate ==
  /\ bm_pc = "loop"
  /\ ci <= Len(candidates)
  /\ hits' = append_hit(hits, ci,
                        gate(target_artist, target_album, candidates[ci], score_cutoff,
                             target_year))
  /\ ci' = ci + 1
  /\ UNCHANGED <<lib_vars, main_vars, bm_inputs, bm_pc, bm_result>>

\* line 507: after the loop
LeaveLoop ==
  /\ bm_pc = "loop"
  /\ ci > Len(candidates)
  /\ bm_pc' = IF hits = <<>> THEN "prefix" ELSE "select"
  /\ UNCHANGED <<lib_vars, main_vars, bm_inputs, ci, hits, bm_result>>

\* lines 586-591
Select ==
  /\ bm_pc = "select"
  /\ bm_result' = select_hit(hits, score_cutoff)
  /\ bm_pc' = "done"
  /\ UNCHANGED <<lib_vars, main_vars, bm_inputs, ci, hits>>

\* lines 523-524, 558-559: return the stage's unique hit, else go on to the next stage
StageReturns(r, next_pc) ==
  /\ bm_result' = IF r.found THEN r ELSE bm_result
  /\ bm_pc' = IF r.found THEN "done" ELSE next_pc

\* lines 511-524
PrefixStage ==
  /\ bm_pc = "prefix"
  /\ StageReturns(prefix_stage(target_artist, target_album, candidates, score_cutoff),
                  "segment")
  /\ UNCHANGED <<lib_vars, main_vars, bm_inputs, ci, hits>>

\* lines 526-559
SegmentStage ==
  /\ bm_pc = "segment"
  /\ StageReturns(segment_stage(target_artist, target_album, candidates, score_cutoff,
                                target_year),
                  "contains")
  /\ UNCHANGED <<lib_vars, main_vars, bm_inputs, ci, hits>>

\* lines 561-574
ContainsStage ==
  /\ bm_pc = "contains"
  /\ bm_result' = contains_stage(target_artist, target_album, candidates, score_cutoff)
  /\ bm_pc' = "done"
  /\ UNCHANGED <<lib_vars, main_vars, bm_inputs, ci, hits>>

NextMatch ==
  \/ ReturnNoCandidates
  \/ EnterLoop
  \/ GateCandidate
  \/ LeaveLoop
  \/ Select
  \/ PrefixStage
  \/ SegmentStage
  \/ ContainsStage

(***************************************************************************)
(* main: the run over the de-duplicated entries                            *)
(***************************************************************************)
\* longest entry list
MaxEntries == 2

Entry_Colourings ==
  [artist |-> Str_Egg, album |-> <<"C","o","l","o","u","r","i","n","g","s">>, year |-> Str_1970]
Entry_RedSky ==
  [artist |-> Str_Egg, album |-> <<"R","e","d"," ","S","k","y">>, year |-> NoneStr]
Entry_Nu == [artist |-> <<"O","m">>, album |-> <<"N","u">>, year |-> NoneStr]
Entry_Live == [artist |-> Str_Egg, album |-> <<"L","i","v","e">>, year |-> NoneStr]
Entry_Zero == [artist |-> <<"G","o","n","g">>, album |-> <<"Z","e","r","o">>, year |-> Str_1971]
EntryPool == {Entry_Colourings, Entry_RedSky, Entry_Nu, Entry_Live, Entry_Zero}

\* dedupe_entries leaves no entry twice: lists of distinct entries
EntryLists ==
  {l \in UNION {[1..n -> EntryPool] : n \in 0..MaxEntries} :
     \A i, j \in 1..Len(l) : i # j => l[i] # l[j]}

Line_Live ==
  [artist |-> Str_Egg, title |-> <<"L","i","v","e">>,
   folder |-> <<"/","x","/","E","g","g","-","L","i","v","e">>]
Line_LiveSpaced ==
  [artist |-> Str_Egg, title |-> <<"L","i","v","e"," ","(","1","9","7","1",")">>,
   folder |-> <<"/","x","/","E","g","g"," ","-"," ","L","i","v","e">>]
Line_LiveMissing ==
  [artist |-> Str_Egg, title |-> <<"L","i","v","e">>,
   folder |-> <<"/","x","/","N","o","p","e">>]
Line_ColouringsSibling ==
  [artist |-> Str_Egg, title |-> <<"C","o","l","o","u","r","i","n","g","s">>,
   folder |-> <<"/","x","/","e","g","g"," ","l","i","v","e">>]
NoExceptionsFile == [exists |-> FALSE, lines |-> <<>>]
ExceptionsFile(lines) == [exists |-> TRUE, lines |-> lines]
ExceptionsFiles ==
  { NoExceptionsFile, ExceptionsFile(<<Line_Live>>), ExceptionsFile(<<Line_LiveSpaced>>),
    ExceptionsFile(<<Line_LiveMissing>>),
    ExceptionsFile(<<Line_LiveMissing, Line_Live, Line_ColouringsSibling>>) }

PrimaryRoot == <<"/","m">>
SecondaryRoot == <<"/","s">>
PrimaryCaches ==
  {NoCacheFile, UnreadableCache, CorruptCache, NotListCache, LockedCache, ListCache(<<>>)}
SecondaryCaches == {NoCacheFile, ListCache(<<>>)}
NoFile == [written |-> FALSE, lines |-> <<>>]
WrittenFile(lines) == [written |-> TRUE, lines |-> lines]
PlaylistFile(text) == [written |-> TRUE, text |-> text]

\* --primary '""': not blank, and empty once line 626 has stripped the quotes
QuotesOnly == <<"\"", "\"">>

\* best_match is not running
IdleMatch ==
  /\ target_artist = <<>>
  /\ target_album = <<>>
  /\ target_year = NoneStr
  /\ score_cutoff = 0
  /\ candidates = <<>>
  /\ bm_pc = "idle"
  /\ ci = 1
  /\ hits = <<>>
  /\ bm_result = NoMatch("idle")

\* main is not running
IdleMain ==
  /\ args = [primary |-> <<>>, secondary |-> <<>>, score_cutoff |-> 0,
             sort_tracks |-> FALSE, dry_run |-> FALSE]
  /\ entries = <<>>
  /\ exceptions_file = NoExceptionsFile
  /\ primary_cache = NoCacheFile
  /\ secondary_cache = NoCacheFile
  /\ exceptions_map = EmptyMap
  /\ primary_candidates = <<>>
  /\ secondary_candidates = <<>>
  /\ main_pc = "idle"
  /\ idx = 1
  /\ rem_i = 1
  /\ bm = NoMatch("idle")
  /\ remaining = <<>>
  /\ all_tracks = <<>>
  /\ matched_count = 0
  /\ not_found = <<>>
  /\ match_log = <<>>
  /\ not_found_file = NoFile
  /\ playlist = NoFile
  /\ argv = [has_primary |-> FALSE, primary |-> <<>>, dry_run |-> FALSE, list_file |-> "absent"]
  /\ log_file = "absent"
  /\ exit_code = NoneInt
  /\ run = 1
  /\ removed = {}
  /\ walked = {}

InitMatch == CallMatch /\ IdleMain /\ IdleLib
SpecMatch == InitMatch /\ [][NextMatch]_vars

\* lines 736-738: the state before the exceptions file is read
InitMain ==
  /\ IdleMatch
  /\ IdleLib
  /\ \E pri \in {PrimaryRoot, <<>>}, sec \in {SecondaryRoot, <<>>}, st \in BOOLEAN, dr \in BOOLEAN :
       args = [primary |-> pri, secondary |-> sec, score_cutoff |-> 85,
               sort_tracks |-> st, dry_run |-> dr]
  /\ entries \in EntryLists
  /\ exceptions_file \in ExceptionsFiles
  /\ primary_cache \in PrimaryCaches
  /\ primary_cache = LockedCache => exceptions_file = NoExceptionsFile
  /\ args.dry_run => ~args.sort_tracks
  /\ args.primary = <<>>
       => /\ exceptions_file = NoExceptionsFile
          /\ primary_cache = NoCacheFile
          /\ ~args.sort_tracks
  /\ secondary_cache \in SecondaryCaches
  /\ exceptions_map = EmptyMap
  /\ primary_candidates = <<>>
  /\ secondary_candidates = <<>>
  /\ main_pc = "exceptions"
  /\ idx = 1
  /\ rem_i = 1
  /\ bm = NoMatch("none")
  /\ remaining = <<>>
  /\ all_tracks = <<>>
  /\ matched_count = 0
  /\ not_found = <<>>
  /\ match_log = <<>>
  /\ not_found_file = NoFile
  /\ playlist = NoFile
  /\ argv = [has_primary |-> TRUE,
             primary |-> IF args.primary = <<>> THEN QuotesOnly ELSE args.primary,
             dry_run |-> args.dry_run, list_file |-> "present"]
  /\ log_file = IF args.dry_run THEN "absent" ELSE "fresh"
  /\ exit_code = NoneInt
  /\ run = 1
  /\ removed = {}
  /\ walked = {}

\* lines 746-782
LoadExceptions ==
  /\ main_pc = "exceptions"
  /\ exceptions_map' = load_exceptions(exceptions_file)
  /\ main_pc' = "primary_index"
  /\ UNCHANGED <<lib_vars, bm_vars, main_inputs, main_caches, primary_candidates, secondary_candidates,
                 walked, main_loop, main_results, main_outputs>>

\* line 788: the primary path is empty, there is no primary library
SkipPrimary ==
  /\ main_pc = "primary_index"
  /\ args.primary = <<>>
  /\ main_pc' = "primary_loop"
  /\ UNCHANGED <<lib_vars, bm_vars, main_inputs, main_caches, main_loaded, main_loop, main_results,
                 main_outputs>>

\* lines 788-792: the primary index comes from the cache
LoadPrimaryCache ==
  /\ main_pc = "primary_index"
  /\ args.primary # <<>>
  /\ ~load_cached_candidates(primary_cache).raised
  /\ ~load_cached_candidates(primary_cache).none
  /\ primary_candidates' = load_cached_candidates(primary_cache).list
  /\ main_pc' = "primary_loop"
  /\ UNCHANGED <<lib_vars, bm_vars, main_inputs, main_caches, exceptions_map, secondary_candidates,
                 walked, main_loop, main_results, main_outputs>>

\* lines 788 and 793-796: the primary library is walked and the cache written
IndexPrimary ==
  /\ main_pc = "primary_index"
  /\ args.primary # <<>>
  /\ ~load_cached_candidates(primary_cache).raised
  /\ load_cached_candidates(primary_cache).none
  /\ ~save_candidates_cache(walk_library(<<args.primary>>, removed), primary_cache).raised
  /\ primary_candidates' = walk_library(<<args.primary>>, removed)
  /\ primary_cache' = save_candidates_cache(walk_library(<<args.primary>>, removed),
                                           primary_cache).file
  /\ walked' = walked \cup {args.primary}
  /\ main_pc' = "primary_loop"
  /\ UNCHANGED <<lib_vars, bm_vars, main_inputs, secondary_cache, exceptions_map, secondary_candidates,
                 main_loop, main_results, main_outputs>>

\* lines 801-802 and 833: the folders the exceptions map resolves entry e to
exception_folders(e, map) ==
  IF entry_key(e.artist, e.album) \in DOMAIN map
  THEN exists_or_try_variants(map[entry_key(e.artist, e.album)])
  ELSE {}

\* EntryResolved without the count
EntryResolved_uncounted(via, i, root, tracks) ==
  /\ all_tracks' = all_tracks \o tracks
  /\ match_log' = Append(match_log, [via |-> via, idx |-> i, root |-> root, tracks |-> tracks])
  /\ UNCHANGED <<matched_count, not_found>>

\* lines 835-849, 860-864, 886-890: a resolved entry adds its tracks
EntryResolved(via, i, root, tracks) ==
  /\ matched_count' = matched_count + 1
  /\ all_tracks' = all_tracks \o tracks
  /\ match_log' = Append(match_log, [via |-> via, idx |-> i, root |-> root, tracks |-> tracks])
  /\ UNCHANGED not_found

\* lines 799-850: an entry the exceptions map resolves
EntryByException ==
  /\ main_pc = "primary_loop"
  /\ idx <= Len(entries)
  /\ \E resolved \in exception_folders(entries[idx], exceptions_map) :
       EntryResolved("exceptions", idx, resolved, exception_tracks(resolved))
  /\ idx' = idx + 1
  /\ UNCHANGED <<lib_vars, bm_vars, main_inputs, main_caches, main_loaded, main_pc, rem_i, bm, remaining,
                 main_outputs>>

\* lines 799-857: an entry the exceptions map does not resolve is matched in primary
MatchPrimary ==
  /\ main_pc = "primary_loop"
  /\ idx <= Len(entries)
  /\ exception_folders(entries[idx], exceptions_map) = {}
  /\ bm' = best_match(entries[idx].artist, entries[idx].album, primary_candidates,
                      args.score_cutoff, entries[idx].year)
  /\ main_pc' = "primary_result"
  /\ UNCHANGED <<lib_vars, bm_vars, main_inputs, main_caches, main_loaded, idx, rem_i, remaining,
                 main_results, main_outputs>>

\* lines 858-865
PrimaryMatched ==
  /\ main_pc = "primary_result"
  /\ bm.found
  /\ EntryResolved("primary", idx, primary_candidates[bm.idx].root,
                   collect_album_tracks(primary_candidates[bm.idx]))
  /\ idx' = idx + 1
  /\ main_pc' = "primary_loop"
  /\ UNCHANGED <<lib_vars, bm_vars, main_inputs, main_caches, main_loaded, rem_i, bm, remaining, main_outputs>>

\* lines 866-867
PrimaryUnmatched ==
  /\ main_pc = "primary_result"
  /\ ~bm.found
  /\ remaining' = Append(remaining, [idx |-> idx, e |-> entries[idx]])
  /\ idx' = idx + 1
  /\ main_pc' = "primary_loop"
  /\ UNCHANGED <<lib_vars, bm_vars, main_inputs, main_caches, main_loaded, rem_i, bm, main_results,
                 main_outputs>>

\* line 799: the primary loop is over
EndPrimary ==
  /\ main_pc = "primary_loop"
  /\ idx > Len(entries)
  /\ main_pc' = "secondary_index"
  /\ UNCHANGED <<lib_vars, bm_vars, main_inputs, main_caches, main_loaded, main_loop, main_results,
                 main_outputs>>

\* a secondary library was given, whatever remains
secondary_given == args.secondary # <<>>

\* line 871
secondary_wanted == args.secondary # <<>> /\ remaining # <<>>

\* line 871: no secondary library, or nothing remains
SkipSecondary ==
  /\ main_pc = "secondary_index"
  /\ ~secondary_wanted
  /\ main_pc' = "secondary_loop"
  /\ UNCHANGED <<lib_vars, bm_vars, main_inputs, main_caches, main_loaded, main_loop, main_results,
                 main_outputs>>

\* lines 873-876
LoadSecondaryCache ==
  /\ main_pc = "secondary_index"
  /\ secondary_wanted
  /\ ~load_cached_candidates(secondary_cache).raised
  /\ ~load_cached_candidates(secondary_cache).none
  /\ secondary_candidates' = load_cached_candidates(secondary_cache).list
  /\ main_pc' = "secondary_loop"
  /\ UNCHANGED <<lib_vars, bm_vars, main_inputs, main_caches, exceptions_map, primary_candidates,
                 walked, main_loop, main_results, main_outputs>>

\* lines 877-880
IndexSecondary ==
  /\ main_pc = "secondary_index"
  /\ secondary_wanted
  /\ ~load_cached_candidates(secondary_cache).raised
  /\ load_cached_candidates(secondary_cache).none
  /\ ~save_candidates_cache(walk_library(<<args.secondary>>, removed), secondary_cache).raised
  /\ secondary_candidates' = walk_library(<<args.secondary>>, removed)
  /\ secondary_cache' = save_candidates_cache(walk_library(<<args.secondary>>, removed),
                                             secondary_cache).file
  /\ walked' = walked \cup {args.secondary}
  /\ main_pc' = "secondary_loop"
  /\ UNCHANGED <<lib_vars, bm_vars, main_inputs, primary_cache, exceptions_map, primary_candidates,
                 main_loop, main_results, main_outputs>>

\* lines 882-883
MatchSecondary ==
  /\ main_pc = "secondary_loop"
  /\ rem_i <= Len(remaining)
  /\ bm' = best_match(remaining[rem_i].e.artist, remaining[rem_i].e.album,
                      secondary_candidates, args.score_cutoff, remaining[rem_i].e.year)
  /\ main_pc' = "secondary_result"
  /\ UNCHANGED <<lib_vars, bm_vars, main_inputs, main_caches, main_loaded, idx, rem_i, remaining,
                 main_results, main_outputs>>

\* lines 884-890
SecondaryMatched ==
  /\ main_pc = "secondary_result"
  /\ bm.found
  /\ EntryResolved("secondary", remaining[rem_i].idx, secondary_candidates[bm.idx].root,
                   collect_album_tracks(secondary_candidates[bm.idx]))
  /\ rem_i' = rem_i + 1
  /\ main_pc' = "secondary_loop"
  /\ UNCHANGED <<lib_vars, bm_vars, main_inputs, main_caches, main_loaded, idx, bm, remaining, main_outputs>>

\* lines 892-894
SecondaryUnmatched ==
  /\ main_pc = "secondary_result"
  /\ ~bm.found
  /\ not_found' = Append(not_found, remaining[rem_i].e)
  /\ rem_i' = rem_i + 1
  /\ main_pc' = "secondary_loop"
  /\ UNCHANGED <<lib_vars, bm_vars, main_inputs, main_caches, main_loaded, idx, bm, remaining,
                 all_tracks, matched_count, match_log, main_outputs>>

\* lines 896-901: the loop is over; duplicates go, and the tracks are sorted on request
FinishTracks ==
  /\ main_pc = "secondary_loop"
  /\ rem_i > Len(remaining)
  /\ all_tracks' = IF args.sort_tracks
                   THEN Sorted(unique_preserve_order(all_tracks))
                   ELSE unique_preserve_order(all_tracks)
  /\ main_pc' = "not_found_log"
  /\ UNCHANGED <<lib_vars, bm_vars, main_inputs, main_caches, main_loaded, main_loop, matched_count,
                 not_found, match_log, main_outputs>>

\* lines 903-915
WriteNotFoundLog ==
  /\ main_pc = "not_found_log"
  /\ not_found_file' =
       IF ~args.dry_run /\ not_found # <<>>
       THEN WrittenFile(<<>> \o [i \in 1..Len(not_found) |-> not_found_line(not_found[i])])
       ELSE not_found_file
  /\ main_pc' = "playlist"
  /\ UNCHANGED <<lib_vars, bm_vars, main_inputs, main_caches, main_loaded, main_loop, main_results, playlist>>

\* lines 917-918
DryRunReturn ==
  /\ main_pc = "playlist"
  /\ args.dry_run
  /\ main_pc' = "done"
  /\ UNCHANGED <<lib_vars, bm_vars, main_inputs, main_caches, main_loaded, main_loop, main_results,
                 main_outputs>>

\* line 920 and make_m3u8
WritePlaylist ==
  /\ main_pc = "playlist"
  /\ ~args.dry_run
  /\ playlist' = PlaylistFile(make_m3u8(all_tracks))
  /\ main_pc' = "done"
  /\ UNCHANGED <<lib_vars, bm_vars, main_inputs, main_caches, main_loaded, main_loop, main_results,
                 not_found_file>>

NextMain ==
  \/ LoadExceptions
  \/ SkipPrimary
  \/ LoadPrimaryCache
  \/ IndexPrimary
  \/ EntryByException
  \/ MatchPrimary
  \/ PrimaryMatched
  \/ PrimaryUnmatched
  \/ EndPrimary
  \/ SkipSecondary
  \/ LoadSecondaryCache
  \/ IndexSecondary
  \/ MatchSecondary
  \/ SecondaryMatched
  \/ SecondaryUnmatched
  \/ FinishTracks
  \/ WriteNotFoundLog
  \/ DryRunReturn
  \/ WritePlaylist

SpecMain == InitMain /\ [][NextMain]_vars

(***************************************************************************)
(* main from its first line, and runs one after another: the cache files,  *)
(* the logs and the playlist stay on disk between runs                     *)
(***************************************************************************)
MaxRuns == 2

OtherRoot == <<"/","x">>
\* --primary as typed: left out, empty, blank, two quotes, a library, another library,
\* a quoted one
CommandLines ==
  {[has_primary |-> FALSE, primary |-> <<>>, dry_run |-> dr, list_file |-> lf] :
     dr \in BOOLEAN, lf \in {"missing", "present"}}
  \cup
  {[has_primary |-> TRUE, primary |-> p, dry_run |-> dr, list_file |-> lf] :
     p \in {<<>>, <<" "," ">>, QuotesOnly, PrimaryRoot, OtherRoot,
            <<"\"">> \o PrimaryRoot \o <<"\"">>},
     dr \in BOOLEAN, lf \in {"missing", "present"}}

\* what the list file parses and de-duplicates to
RunEntryLists == {<<Entry_Colourings, Entry_Nu>>, <<Entry_Zero>>, <<Entry_Live>>}

\* the not-found file an earlier run wrote
OldNotFoundFile == WrittenFile(<<not_found_line(Entry_RedSky)>>)
\* an album folder that may be deleted between two runs
RemovableFolder == <<"/","m","/","E","g","g","/","C","o","l","o","u","r","i","n","g","s">>

NoArgs ==
  [primary |-> <<>>, secondary |-> <<>>, score_cutoff |-> 0, sort_tracks |-> FALSE,
   dry_run |-> FALSE]

\* lines 603-619: main is entered
InitRuns ==
  /\ IdleMatch
  /\ IdleLib
  /\ argv \in CommandLines
  /\ args = NoArgs
  /\ entries = <<>>
  /\ exceptions_file = ExceptionsFile(<<Line_Live>>)
  /\ primary_cache \in {NoCacheFile, ListCache(<<>>)}
  /\ secondary_cache = NoCacheFile
  /\ exceptions_map = EmptyMap
  /\ primary_candidates = <<>>
  /\ secondary_candidates = <<>>
  /\ main_pc = "argv"
  /\ idx = 1
  /\ rem_i = 1
  /\ bm = NoMatch("none")
  /\ remaining = <<>>
  /\ all_tracks = <<>>
  /\ matched_count = 0
  /\ not_found = <<>>
  /\ match_log = <<>>
  /\ not_found_file \in {NoFile, OldNotFoundFile}
  /\ log_file \in {"absent", "old"}
  /\ playlist = NoFile
  /\ exit_code = NoneInt
  /\ run = 1
  /\ removed = {}
  /\ walked = {}

\* sys.exit(status)
Exit(status) ==
  /\ exit_code' = status
  /\ main_pc' = "exit"
  /\ UNCHANGED <<lib_vars, bm_vars, args, entries, exceptions_file, argv, log_file, run, removed,
                 main_caches, main_loaded, main_loop, main_results, main_outputs>>

\* line 608 and 619: --primary is required; without it parse_args exits with status 2
ArgsRejected ==
  /\ main_pc = "argv"
  /\ ~argv.has_primary
  /\ Exit(2)

\* lines 604-619
ParseArgs ==
  /\ main_pc = "argv"
  /\ argv.has_primary
  /\ args' = [primary |-> argv.primary, secondary |-> SecondaryRoot, score_cutoff |-> 85,
              sort_tracks |-> FALSE, dry_run |-> argv.dry_run]
  /\ main_pc' = "validate"
  /\ UNCHANGED <<lib_vars, bm_vars, entries, exceptions_file, run_inputs, main_caches, main_loaded,
                 main_loop, main_results, main_outputs>>

\* a test that refuses the empty path only
primary_empty(primary) == primary = <<>>

\* line 622: not args.primary or not str(args.primary).strip()
primary_rejected(primary) == primary = <<>> \/ Str_strip(primary) = <<>>

\* lines 621-624
PrimaryRejected ==
  /\ main_pc = "validate"
  /\ primary_rejected(args.primary)
  /\ Exit(2)

\* line 626
PrimaryAccepted ==
  /\ main_pc = "validate"
  /\ ~primary_rejected(args.primary)
  /\ args' = [args EXCEPT !.primary = sanitize_path(args.primary)]
  /\ main_pc' = "cleanup"
  /\ UNCHANGED <<lib_vars, bm_vars, entries, exceptions_file, run_inputs, main_caches, main_loaded,
                 main_loop, main_results, main_outputs>>

\* lines 647-677: the old not-found file and the old log go, unless the run is a dry run
Cleanup ==
  /\ main_pc = "cleanup"
  /\ not_found_file' = IF args.dry_run THEN not_found_file ELSE NoFile
  /\ log_file' = IF args.dry_run THEN log_file ELSE "absent"
  /\ main_pc' = "logging"
  /\ UNCHANGED <<lib_vars, bm_vars, args, entries, exceptions_file, argv, exit_code, run, removed,
                 main_caches, main_loaded, main_loop, main_results, playlist>>

\* lines 679-689: logging.FileHandler(log_path, mode="w") opens a new log file
OpenLog ==
  /\ main_pc = "logging"
  /\ log_file' = IF args.dry_run THEN log_file ELSE "fresh"
  /\ main_pc' = "entries"
  /\ UNCHANGED <<lib_vars, bm_vars, args, entries, exceptions_file, argv, exit_code, run, removed,
                 main_caches, main_loaded, main_loop, main_results, main_outputs>>

\* lines 699-703: the list file does not exist
EntriesMissing ==
  /\ main_pc = "entries"
  /\ argv.list_file # "present"
  /\ Exit(1)

\* lines 699-710: the list file is parsed and the entries de-duplicated
ParseEntries ==
  /\ main_pc = "entries"
  /\ argv.list_file = "present"
  /\ entries' \in RunEntryLists
  /\ main_pc' = "exceptions"
  /\ UNCHANGED <<lib_vars, bm_vars, args, exceptions_file, run_inputs, main_caches, main_loaded,
                 main_loop, main_results, main_outputs>>

\* main has returned or exited; the program is started again, on the disk as it is, and
\* an album folder may have been deleted in between
NextRun ==
  /\ main_pc \in {"done", "exit"}
  /\ run < MaxRuns
  /\ run' = run + 1
  /\ argv' \in CommandLines
  /\ removed' \in {removed, removed \cup {RemovableFolder}}
  /\ args' = NoArgs
  /\ entries' = <<>>
  /\ exceptions_map' = EmptyMap
  /\ primary_candidates' = <<>>
  /\ secondary_candidates' = <<>>
  /\ walked' = {}
  /\ main_pc' = "argv"
  /\ idx' = 1
  /\ rem_i' = 1
  /\ bm' = NoMatch("none")
  /\ remaining' = <<>>
  /\ all_tracks' = <<>>
  /\ matched_count' = 0
  /\ not_found' = <<>>
  /\ match_log' = <<>>
  /\ exit_code' = NoneInt
  /\ UNCHANGED <<lib_vars, bm_vars, exceptions_file, log_file, main_caches, main_outputs>>

NextRuns ==
  \/ ArgsRejected
  \/ ParseArgs
  \/ PrimaryRejected
  \/ PrimaryAccepted
  \/ Cleanup
  \/ OpenLog
  \/ EntriesMissing
  \/ ParseEntries
  \/ NextMain
  \/ NextRun

SpecRuns == InitRuns /\ [][NextRuns]_vars

(***************************************************************************)
(* dedupe_entries: near-duplicate albums of one artist are merged          *)
(***************************************************************************)
MaxDedupe == 3
DedupeCutoff == 90

Dup_RedSky ==
  [artist |-> <<"E","g","g">>, album |-> <<"R","e","d"," ","S","k","y">>, year |-> NoneStr]
Dup_BlueMoon ==
  [artist |-> <<"E","g","g">>, album |-> <<"B","l","u","e"," ","M","o","o","n">>, year |-> NoneStr]
Dup_Both1970 ==
  [artist |-> <<"T","h","e"," ","E","g","g">>, album |-> <<"R","e","d"," ","S","k","y"," ","B","l","u","e"," ","M","o","o","n">>, year |-> Str_1970]
Dup_RedSky1971 ==
  [artist |-> <<"E","g","g">>, album |-> <<"R","e","d"," ","S","k","y">>, year |-> Str_1971]
Dup_OmRedSky ==
  [artist |-> <<"O","m">>, album |-> <<"R","e","d"," ","S","k","y">>, year |-> NoneStr]
Dup_OmRedSky1970 ==
  [artist |-> <<"O","m">>, album |-> <<"R","e","d"," ","S","k","y","!">>, year |-> Str_1970]
DupPool == {Dup_RedSky, Dup_BlueMoon, Dup_Both1970, Dup_RedSky1971, Dup_OmRedSky, Dup_OmRedSky1970}
DupLists == UNION {[1..n -> DupPool] : n \in 0..MaxDedupe}

\* truthiness of e.get("year")
has_year(e) == e.year # NoneStr

\* line 331
akey_of(e) == normalize_artist(e.artist)

\* grouped.setdefault(akey, []).append(e) with the key put first instead of last
grouped_add_front(g, akey, i) ==
  IF \E n \in 1..Len(g) : g[n].akey = akey
  THEN [n \in 1..Len(g) |-> IF g[n].akey = akey
                           THEN [akey |-> akey, items |-> Append(g[n].items, i)]
                           ELSE g[n]]
  ELSE <<[akey |-> akey, items |-> <<i>>]>> \o g

\* line 332: grouped.setdefault(akey, []).append(e); a dict keeps its keys in
\* insertion order
grouped_add(g, akey, i) ==
  IF \E n \in 1..Len(g) : g[n].akey = akey
  THEN [n \in 1..Len(g) |-> IF g[n].akey = akey
                           THEN [akey |-> akey, items |-> Append(g[n].items, i)]
                           ELSE g[n]]
  ELSE Append(g, [akey |-> akey, items |-> <<i>>])

\* lines 329-332
RECURSIVE group_entries(_, _, _)
group_entries(ents, i, g) ==
  IF i > Len(ents) THEN g
  ELSE group_entries(ents, i + 1, grouped_add(g, akey_of(ents[i]), i))

\* a comparison that takes only equal normalized albums for duplicates
album_equal(e, k, cutoff) == normalize_text(e.album) = normalize_text(k.album)

\* lines 339-341
album_similar(e, k, cutoff) ==
  ScoreGeq(fuzz_token_set_ratio(normalize_text(e.album), normalize_text(k.album)), cutoff)

\* the search of lines 338-344 taking the last similar kept entry
duplicate_idx_last(ents, e, kept_items, cutoff) ==
  LET found == {n \in 1..Len(kept_items) : album_similar(e, ents[kept_items[n]], cutoff)}
  IN IF found = {} THEN NoneInt ELSE CHOOSE n \in found : \A m \in found : m <= n

\* lines 337-344: the position in kept of the first entry similar to e, or None
duplicate_idx(ents, e, kept_items, cutoff) ==
  LET found == {n \in 1..Len(kept_items) : album_similar(e, ents[kept_items[n]], cutoff)}
  IN IF found = {} THEN NoneInt ELSE CHOOSE n \in found : \A m \in found : n <= m

\* a merge that takes the duplicate's year whenever it has one
merged_year_overwriting(k, e) == IF has_year(e) THEN e.year ELSE k.year

\* lines 349-351
merged_year(k, e) == IF ~has_year(k) /\ has_year(e) THEN e.year ELSE k.year

\* the entry the inner loop is at
dd_item == grouped[dd_g].items[dd_j]

InitDedupe ==
  /\ IdleMatch
  /\ IdleMain
  /\ IdleCalls
  /\ dd_input \in DupLists
  /\ dd_entries = dd_input
  /\ dd_cutoff = DedupeCutoff
  /\ dd_pc = "group"
  /\ grouped = <<>>
  /\ dd_g = 1
  /\ dd_j = 1
  /\ kept = <<>>
  /\ dd_result = <<>>
  /\ dd_pass = 1
  /\ dd_first = <<>>

\* lines 329-334
GroupEntries ==
  /\ dd_pc = "group"
  /\ grouped' = group_entries(dd_entries, 1, <<>>)
  /\ dd_pc' = "items"
  /\ UNCHANGED <<bm_vars, main_vars, call_vars, dd_inputs, dd_entries, dd_g, dd_j, kept, dd_result>>

\* lines 337-346: an entry similar to no kept entry is kept
KeepEntry ==
  /\ dd_pc = "items"
  /\ dd_g <= Len(grouped)
  /\ dd_j <= Len(grouped[dd_g].items)
  /\ duplicate_idx(dd_entries, dd_entries[dd_item], kept, dd_cutoff) = NoneInt
  /\ kept' = Append(kept, dd_item)
  /\ dd_j' = dd_j + 1
  /\ UNCHANGED <<bm_vars, main_vars, call_vars, dd_inputs, dd_entries, dd_pc, grouped, dd_g, dd_result>>

\* a merge that puts the duplicate in the place of the kept entry
merge_replacing(ents, kept_items, n, e) == [ents EXCEPT ![kept_items[n]] = e]

\* the kept entry at position n of kept, after the merge of entry e into it
merge_into(ents, kept_items, n, e) ==
  [ents EXCEPT ![kept_items[n]].year = merged_year(ents[kept_items[n]], e)]

\* lines 337-344 and 347-351: a duplicate is dropped and may give its year
MergeDuplicate ==
  /\ dd_pc = "items"
  /\ dd_g <= Len(grouped)
  /\ dd_j <= Len(grouped[dd_g].items)
  /\ duplicate_idx(dd_entries, dd_entries[dd_item], kept, dd_cutoff) # NoneInt
  /\ dd_entries' = merge_into(dd_entries, kept,
                              duplicate_idx(dd_entries, dd_entries[dd_item], kept, dd_cutoff),
                              dd_entries[dd_item])
  /\ dd_j' = dd_j + 1
  /\ UNCHANGED <<bm_vars, main_vars, call_vars, dd_inputs, dd_pc, grouped, dd_g, kept, dd_result>>

\* line 352: result.extend(kept), and the next group
NextGroup ==
  /\ dd_pc = "items"
  /\ dd_g <= Len(grouped)
  /\ dd_j > Len(grouped[dd_g].items)
  /\ dd_result' = dd_result \o kept
  /\ kept' = <<>>
  /\ dd_g' = dd_g + 1
  /\ dd_j' = 1
  /\ UNCHANGED <<bm_vars, main_vars, call_vars, dd_inputs, dd_entries, dd_pc, grouped>>

\* line 355
ReturnDeduped ==
  /\ dd_pc = "items"
  /\ dd_g > Len(grouped)
  /\ dd_pc' = "done"
  /\ UNCHANGED <<bm_vars, main_vars, call_vars, dd_inputs, dd_entries, grouped, dd_g, dd_j, kept, dd_result>>

\* the list dedupe_entries returns
deduped == [n \in 1..Len(dd_result) |-> dd_entries[dd_result[n]]]

\* lines 323-334: dedupe_entries is called again, on the list it returned
DedupeAgain ==
  /\ dd_pc = "done"
  /\ dd_pass = 1
  /\ dd_pass' = 2
  /\ dd_first' = deduped
  /\ dd_input' = deduped
  /\ dd_entries' = deduped
  /\ dd_pc' = "group"
  /\ grouped' = <<>>
  /\ dd_g' = 1
  /\ dd_j' = 1
  /\ kept' = <<>>
  /\ dd_result' = <<>>
  /\ UNCHANGED <<bm_vars, main_vars, call_vars, dd_cutoff>>

NextDedupe ==
  \/ GroupEntries
  \/ KeepEntry
  \/ MergeDuplicate
  \/ NextGroup
  \/ ReturnDeduped
  \/ DedupeAgain

SpecDedupe == InitDedupe /\ [][NextDedupe]_vars

(***************************************************************************)
(* Functions called on their own: collect_album_tracks, make_m3u8,         *)
(* normalize_text, extract_years                                           *)
(***************************************************************************)
MaxFiles == 2
MaxTracks == 3
MaxTextTokens == 3
MaxYearTokens == 4

RECURSIVE Concat(_)
Concat(parts) == IF parts = <<>> THEN <<>> ELSE parts[1] \o Concat(Tail(parts))
Texts(tokens, n) == {Concat(l) : l \in UNION {[1..k -> tokens] : k \in 0..n}}

AudioPool == {<<"/","m","/","b",".","f","l","a","c">>, <<"/","m","/","a",".","f","l","a","c">>, <<"/","m","/","A",".","m","p","3">>}
CuePool == {<<"/","m","/","b",".","c","u","e">>, <<"/","m","/","a",".","c","u","e">>}
FileLists(pool) == UNION {[1..n -> pool] : n \in 0..MaxFiles}
CollectArgs ==
  {[root |-> <<"/","m">>, artist |-> <<>>, album |-> <<"m">>, audio_files |-> a, cue_files |-> c] :
     a \in FileLists(AudioPool), c \in FileLists(CuePool)}

\* file paths; a file name may hold any character but "/" and NUL, a line feed too
TrackPool == {<<"/","m","/","a",".","m","p","3">>, <<"/","m","/","b"," ","c",".","f","l","a","c">>, <<"/","m","/","#","1",".","m","p","3">>, <<"/","m","/","d","\n","e",".","m","p","3">>}
TrackLists ==
  {l \in UNION {[1..n -> TrackPool] : n \in 0..MaxTracks} :
     \A i, j \in 1..Len(l) : i # j => l[i] # l[j]}

TextTokens == {<<"T","h","e"," ">>, <<"a"," ">>, <<"-">>, <<"E","g","g">>, <<" ","&"," ">>, <<"l","'">>}
NormalizeArgs == Texts(TextTokens, MaxTextTokens)

YearTokens == {<<"[">>, <<"]">>, <<"1","9","7","3">>, <<"2","0","0","4">>, <<"1","8","5","0">>, <<" ">>, <<"x">>}
Text_TwoYears == <<"[","1","9","7","3"," ","(","2","0","0","4",")","]"," ","T","i","t","l","e">>
YearArgs == Texts(YearTokens, MaxYearTokens) \cup {Text_TwoYears}

\* base paths as the command line gives them: library roots, a nested one,
\* a quoted one, an empty one and one that does not exist
MaxBases == 2
BasePool ==
  {<<"/","m">>, <<"/","s">>, <<"/","x">>, <<"/","s","/","E","g","g">>,
   <<" ","\"","/","x","\""," ">>, <<>>, <<"/","n","o">>}
BaseLists == UNION {[1..n -> BasePool] : n \in 0..MaxBases}

InitCalls ==
  /\ IdleMatch
  /\ IdleMain
  /\ IdleDedupe
  /\ \/ call_fn = "collect_album_tracks" /\ call_arg \in CollectArgs
     \/ call_fn = "make_m3u8" /\ call_arg \in TrackLists
     \/ call_fn = "normalize_text" /\ call_arg \in NormalizeArgs
     \/ call_fn = "extract_years" /\ call_arg \in YearArgs
     \/ call_fn = "index_music_library" /\ call_arg \in BaseLists
  /\ call_pc = "call"
  /\ call_out = <<>>
  /\ call_back = <<>>

\* the call returns out
Returns(out) ==
  /\ call_pc = "call"
  /\ call_out' = out
  /\ call_pc' = "returned"
  /\ UNCHANGED <<bm_vars, main_vars, dd_vars, call_fn, call_arg, call_back>>

\* a second step makes back of the value returned
Then(back) ==
  /\ call_pc = "returned"
  /\ call_back' = back
  /\ call_pc' = "done"
  /\ UNCHANGED <<bm_vars, main_vars, dd_vars, call_fn, call_arg, call_out>>

\* lines 300-310
CollectAlbumTracks ==
  /\ call_fn = "collect_album_tracks"
  /\ Returns(collect_album_tracks(call_arg))

\* lines 594-601: the playlist file is written
MakeM3u8 ==
  /\ call_fn = "make_m3u8"
  /\ Returns(make_m3u8(call_arg))

\* the playlist file is read back line by line
ReadPlaylist ==
  /\ call_fn = "make_m3u8"
  /\ Then(read_lines(call_out))

\* lines 18-34
NormalizeText ==
  /\ call_fn = "normalize_text"
  /\ Returns(normalize_text(call_arg))

\* normalize_text applied to its own result
NormalizeAgain ==
  /\ call_fn = "normalize_text"
  /\ Then(normalize_text(call_out))

\* lines 80-101
ExtractYears ==
  /\ call_fn = "extract_years"
  /\ Returns(extract_years(call_arg))

\* lines 198-250
IndexMusicLibrary ==
  /\ call_fn = "index_music_library"
  /\ Returns(index_music_library(call_arg))

NextCalls ==
  \/ CollectAlbumTracks
  \/ MakeM3u8
  \/ ReadPlaylist
  \/ NormalizeText
  \/ NormalizeAgain
  \/ ExtractYears
  \/ IndexMusicLibrary

SpecCalls == InitCalls /\ [][NextCalls]_vars

(***************************************************************************)
(* Properties of best_match, checked under SpecMatch                       *)
(***************************************************************************)
Returned == bm_pc = "done" /\ bm_result.found
FallbackVias == {"prefix", "segment", "contains"}
HitSet == SeqToSet(hits)

\* C1: whenever best_match returns a result, from the gated selection or from any of
\* the three fallback stages, its score is at least score_cutoff.
C1_ScoreAtLeastCutoff ==
  Returned => ScoreGeq(bm_result.score, score_cutoff)

\* a fallback stage returns a candidate under a cutoff above its base score of 90
C1_Witness_FallbackAboveBase ==
  Returned /\ bm_result.via \in FallbackVias /\ score_cutoff = 96

\* C2: best_match("Color Humano", "Color", [candidate artist "Color Humano", album
\* "Color Humano"], cutoff=85) returns None: a lone candidate whose album merely
\* contains the target album's tokens, with a no-space similarity below
\* max(85, cutoff-5), is not matched.
C2_ColorHumanoNotMatched ==
  ( /\ bm_pc = "done"
    /\ target_artist = Target_Color.artist
    /\ target_album = Target_Color.album
    /\ candidates = <<Cand_ColorHumano>>
    /\ score_cutoff = 85
    /\ SeqToSet(Str_split(normalize_album_for_match(target_album, FALSE)))
         \subseteq SeqToSet(Str_split(normalize_album_for_match(candidates[1].album, TRUE)))
    /\ SeqToSet(Str_split(normalize_album_for_match(target_album, FALSE)))
         # SeqToSet(Str_split(normalize_album_for_match(candidates[1].album, TRUE)))
    /\ ScoreLt(fuzz_ratio(Str_nospace(normalize_album_for_match(target_album, FALSE)),
                          Str_nospace(normalize_album_for_match(candidates[1].album, TRUE))),
               Max2(AlbumNsMin, score_cutoff - AlbumNsSlack)) )
  => ~bm_result.found

\* C3: if the target album or the target artist normalizes to the empty string,
\* best_match returns no match for every candidate list and every score_cutoff > 0,
\* the three fallback stages included.
C3_EmptyTargetNeverMatches ==
  ( /\ bm_pc = "done"
    /\ score_cutoff > 0
    /\ \/ normalize_album_for_match(target_album, FALSE) = <<>>
       \/ normalize_artist(target_artist) = <<>> )
  => ~bm_result.found

\* C6 as stated: every score best_match returns lies in 0..100, for any score_cutoff.
C6_ScoreInRangeAnyCutoff ==
  Returned => FracGeq(bm_result.score, FracOfInt(0)) /\ FracGeq(FracOfInt(100), bm_result.score)

\* C6, amended: for a score_cutoff of at most 100 (the documented range is 0-100),
\* every score best_match returns lies in 0..100.
C6_ScoreInRange ==
  (Returned /\ score_cutoff <= 100)
  => FracGeq(bm_result.score, FracOfInt(0)) /\ FracGeq(FracOfInt(100), bm_result.score)

\* an exact-year hit whose bonus is cut off at 100 is returned
C6_Witness_ClampedBonus ==
  /\ Returned
  /\ score_cutoff <= 100
  /\ bm_result.score = FracOfInt(100)
  /\ \E h \in HitSet : h.idx = bm_result.idx /\ h.year_diff = 0

\* C7: when at least one candidate passes both gates, the returned candidate has the
\* smallest year bucket among the passing candidates and the highest score within
\* that bucket, and among equals it is the first of the candidate list.
C7_BestBucketThenScore ==
  (bm_pc = "done" /\ hits # <<>>)
  => /\ bm_result.found
     /\ \E top \in HitSet :
          /\ top.idx = bm_result.idx
          /\ top.score = bm_result.score
          /\ \A h \in HitSet :
               /\ year_bucket(top.year_diff) <= year_bucket(h.year_diff)
               /\ (year_bucket(top.year_diff) = year_bucket(h.year_diff)
                     => FracGeq(top.score, h.score))
               /\ (year_bucket(top.year_diff) = year_bucket(h.year_diff)
                   /\ top.score = h.score
                     => top.idx <= h.idx)

\* an exact-year candidate is returned although another passing candidate scores higher
C7_Witness_YearBeatsScore ==
  /\ Returned
  /\ \E top \in HitSet, h \in HitSet :
       /\ top.idx = bm_result.idx
       /\ top.year_diff = 0
       /\ year_bucket(h.year_diff) = 2
       /\ FracGt(h.score, top.score)
       /\ h.idx < top.idx

\* the result the stage counts call for: the candidate of the first stage with exactly
\* one qualifying candidate
StageCounts ==
  [prefix |-> Len(prefix_candidates(target_artist, target_album, candidates)),
   segment |-> Len(segment_candidates(target_artist, target_album, candidates)),
   contains |-> Len(contains_candidates(target_artist, target_album, candidates))]
FirstUniqueStage ==
  IF StageCounts.prefix = 1 THEN "prefix"
  ELSE IF StageCounts.segment = 1 THEN "segment"
  ELSE IF StageCounts.contains = 1 THEN "contains"
  ELSE "none"
StageCandidate(stage) ==
  IF stage = "prefix" THEN prefix_candidates(target_artist, target_album, candidates)[1]
  ELSE IF stage = "segment" THEN segment_candidates(target_artist, target_album, candidates)[1]
  ELSE contains_candidates(target_artist, target_album, candidates)[1]

\* C8: the fallback stages run in the order prefix-compound, segment-compound,
\* containment; the candidate of the first stage with exactly one qualifying candidate
\* is returned; a stage with none or with several is passed over; if no stage has
\* exactly one the result is no match.
C8_FirstUniqueStageWins ==
  /\ (bm_pc = "segment" => StageCounts.prefix # 1)
  /\ (bm_pc = "contains" => StageCounts.prefix # 1 /\ StageCounts.segment # 1)
  /\ (bm_pc = "done" /\ hits = <<>> /\ candidates # <<>>)
       => IF FirstUniqueStage = "none" THEN ~bm_result.found
          ELSE /\ bm_result.found
               /\ bm_result.via = FirstUniqueStage
               /\ bm_result.idx = StageCandidate(FirstUniqueStage)

\* an ambiguous segment stage is passed over and the containment stage returns
C8_Witness_AmbiguousStagePassed ==
  /\ Returned
  /\ bm_result.via = "contains"
  /\ StageCounts.prefix = 0
  /\ StageCounts.segment = 2

\* C9: the fallback chain runs if and only if the gated stage leaves no hit: every hit
\* already scores at least score_cutoff, so a non-empty hit list always returns a match
\* and never leads to a fallback stage or to None.
C9_FallbackOnlyWithoutHits ==
  /\ \A h \in HitSet : ScoreGeq(h.score, score_cutoff)
  /\ (bm_pc \in FallbackVias => hits = <<>>)
  /\ (bm_pc = "select" => hits # <<>>)
  /\ (bm_pc = "done" /\ hits # <<>> => bm_result.found /\ bm_result.via = "gated")
  /\ (bm_pc = "done" /\ hits = <<>> /\ candidates # <<>>
        => bm_result.via \in FallbackVias \cup {"none"})

\* a hit list of two is selected from under the strict cutoff
C9_Witness_HitsSelected ==
  /\ Returned
  /\ bm_result.via = "gated"
  /\ Len(hits) = 2
  /\ score_cutoff = 96

\* the raw score max(labelScore, albumScore) of the candidate a hit stands for
RawOf(h) == gate(target_artist, target_album, candidates[h.idx], score_cutoff, target_year).raw

\* C10: the year adjustment only adds: a hit's score is min(100, r+10) when the
\* minimum year difference is 0, min(100, r+5) when it is 1, and r otherwise (a
\* difference of 2 or more, no target year, no candidate year); it is never below r.
C10_YearBonusOnly ==
  \A h \in HitSet :
    /\ h.year_diff = year_diff_of(candidates[h.idx], target_year)
    /\ h.score = IF h.year_diff = 0 THEN FracMin(FracOfInt(100), FracAddInt(RawOf(h), 10))
                 ELSE IF h.year_diff = 1 THEN FracMin(FracOfInt(100), FracAddInt(RawOf(h), 5))
                 ELSE RawOf(h)
    /\ FracGeq(h.score, RawOf(h))

\* a hit one year off got five points, short of 100
C10_Witness_NearYearBonus ==
  \E h \in HitSet :
    /\ h.year_diff = 1
    /\ h.score = FracAddInt(RawOf(h), 5)
    /\ FracGt(FracOfInt(100), h.score)

\* line 443 for the returned candidate, artists normalized as at lines 360 and 375
ReturnedSupersetArtist ==
  single_token_superset(SeqToSet(Str_split(normalize_artist(target_artist))),
                        SeqToSet(Str_split(normalize_artist(candidates[bm_result.idx].artist))))

\* line 456: the one case in which a single-token superset may pass
StrictSelfTitled(c) ==
  /\ normalize_album_for_match(target_album, FALSE) = normalize_artist(target_artist)
  /\ normalize_album_for_match(c.album, TRUE) = normalize_artist(c.artist)
  /\ ScoreGeq(fuzz_ratio(Str_nospace(normalize_album_for_match(target_album, FALSE)),
                         Str_nospace(normalize_album_for_match(c.album, TRUE))),
              SelfTitledNsMin)

\* C11: best_match never returns a candidate whose normalized artist token set is a
\* strict superset of a single-token target artist, unless the target is self-titled,
\* the candidate's album equals its artist and the no-space album similarity is >= 99;
\* for the gated stage and the fallback stages alike.
C11_NoSingleTokenSuperset ==
  (Returned /\ ReturnedSupersetArtist) => StrictSelfTitled(candidates[bm_result.idx])

(***************************************************************************)
(* Properties of main, checked under SpecMain                              *)
(***************************************************************************)
LoopsOver == main_pc \in {"not_found_log", "playlist", "done"}
ResolvedIdx == {match_log[k].idx : k \in 1..Len(match_log)}

\* position of a track in the final list
PosOf(t) == CHOOSE k \in 1..Len(all_tracks) : all_tracks[k] = t

\* the tracks log line k is the first, in entry order, to contribute
FirstContributed(k) ==
  {t \in SeqToSet(match_log[k].tracks) :
     \A j \in 1..Len(match_log) :
       match_log[j].idx < match_log[k].idx => t \notin SeqToSet(match_log[j].tracks)}

\* C4: without track sorting the playlist lists the per-entry track lists in entry
\* order: for resolved entries i < j every track first contributed by i precedes every
\* track first contributed by j, whichever of exceptions, primary and secondary
\* resolved them.
C4_TracksInEntryOrder ==
  (main_pc = "done" /\ ~args.sort_tracks)
  => \A a, b \in 1..Len(match_log) :
       match_log[a].idx < match_log[b].idx
       => \A t \in FirstContributed(a), u \in FirstContributed(b) : PosOf(t) < PosOf(u)

\* the entries no log line resolves, in entry order
UnresolvedEntries ==
  LET left == IdxSeq({i \in 1..Len(entries) : i \notin ResolvedIdx})
  IN <<>> \o [k \in 1..Len(left) |-> entries[left[k]]]

\* C5: once all entries are processed each has exactly one outcome, resolved to one
\* album directory (by exceptions, primary or secondary) or recorded in not_found:
\* matched_count + len(not_found) == len(entries), and not_found is exactly the
\* entries neither library resolved, in entry order.
C5_OneOutcomePerEntry ==
  LoopsOver
  => /\ matched_count + Len(not_found) = Len(entries)
     /\ matched_count = Len(match_log)
     /\ ResolvedIdx \subseteq 1..Len(entries)
     /\ \A a, b \in 1..Len(match_log) : match_log[a].idx = match_log[b].idx => a = b
     /\ not_found = UnresolvedEntries

\* a run ends with one entry resolved by the secondary library and an earlier one not found
C5_Witness_MatchedAndNotFound ==
  /\ main_pc = "done"
  /\ matched_count = 1
  /\ Len(not_found) = 1
  /\ match_log[1].via = "secondary"
  /\ match_log[1].idx = 2

(***************************************************************************)
(* Properties of dedupe_entries, checked under SpecDedupe                  *)
(***************************************************************************)
KeptSet == SeqToSet(dd_result)
Positions == 1..Len(dd_input)
SameGroup(i, j) == akey_of(dd_input[i]) = akey_of(dd_input[j])
SimilarTo(i) ==
  {k \in KeptSet : k < i /\ SameGroup(i, k) /\ album_similar(dd_input[i], dd_input[k], dd_cutoff)}
Least(S) == CHOOSE x \in S : \A y \in S : x <= y

\* the duplicates with a year that were merged into kept entry k, which had none
Donors(k) ==
  {i \in Positions \ KeptSet :
     SimilarTo(i) # {} /\ Least(SimilarTo(i)) = k /\ has_year(dd_input[i])}

\* C12: the entries of one artist group are processed in input order; an entry is
\* discarded exactly when a previously kept entry of its group has album similarity
\* >= cutoff, and it is merged into the first such kept entry, which receives the
\* duplicate's year if and only if it has no year and the duplicate has one.
C12_MergedIntoFirstKept ==
  dd_pc = "done"
  => /\ \A i \in Positions : i \notin KeptSet <=> SimilarTo(i) # {}
     /\ \A k \in KeptSet :
          dd_entries[k].year =
            IF has_year(dd_input[k]) \/ Donors(k) = {} THEN dd_input[k].year
            ELSE dd_input[Least(Donors(k))].year

\* a duplicate with a year is similar to two kept entries without one; the first got it
C12_Witness_TwoSimilarKept ==
  /\ dd_pc = "done"
  /\ \E i \in Positions \ KeptSet :
       /\ Cardinality(SimilarTo(i)) = 2
       /\ has_year(dd_input[i])
       /\ \A k \in SimilarTo(i) : ~has_year(dd_input[k])
       /\ dd_entries[Least(SimilarTo(i))].year = dd_input[i].year
       /\ \E k \in SimilarTo(i) : ~has_year(dd_entries[k])

\* C13: dedupe_entries changes nothing in any entry except filling a missing year of a
\* kept entry: artist and album stay, a year present on a kept entry is never replaced
\* by a duplicate's year, and discarded entries are left as they were.
C13_OnlyMissingYearFilled ==
  /\ Len(dd_entries) = Len(dd_input)
  /\ \A i \in Positions :
       /\ dd_entries[i].artist = dd_input[i].artist
       /\ dd_entries[i].album = dd_input[i].album
       /\ has_year(dd_input[i]) => dd_entries[i].year = dd_input[i].year
  /\ dd_pc = "done" => \A i \in Positions \ KeptSet : dd_entries[i] = dd_input[i]

\* a kept entry was given a year by one duplicate and then met a duplicate with another year
C13_Witness_FilledYearNotReplaced ==
  /\ dd_pc = "done"
  /\ \E i \in Positions \ KeptSet :
       /\ has_year(dd_input[i])
       /\ ~has_year(dd_input[Least(SimilarTo(i))])
       /\ has_year(dd_entries[Least(SimilarTo(i))])
       /\ dd_entries[Least(SimilarTo(i))].year # dd_input[i].year

\* the first position of the input with the artist key of entry i
FirstOfGroup(i) == Least({j \in Positions : SameGroup(i, j)})

\* C14: the output consists only of input entries, lists the artist groups in the order
\* of each normalized artist key's first appearance in the input, and within a group
\* lists the kept entries in their original relative order.
C14_GroupsInFirstSeenOrder ==
  dd_pc = "done"
  => /\ KeptSet \subseteq Positions
     /\ \A m, n \in 1..Len(dd_result) :
          m < n => IF SameGroup(dd_result[m], dd_result[n])
                   THEN dd_result[m] < dd_result[n]
                   ELSE FirstOfGroup(dd_result[m]) < FirstOfGroup(dd_result[n])

\* an entry of the first artist, met after an entry of a second artist, is listed before it
C14_Witness_GroupPulledForward ==
  /\ dd_pc = "done"
  /\ Len(dd_result) = 3
  /\ dd_result = <<1, 3, 2>>

(***************************************************************************)
(* Properties of the functions called on their own, checked under SpecCalls *)
(***************************************************************************)
ReturnedFrom(fn) == call_fn = fn /\ call_pc \in {"returned", "done"}
Count(seq, x) == Cardinality({i \in 1..Len(seq) : seq[i] = x})
InOrder(seq) == \A i, j \in 1..Len(seq) : i < j => ~StrLess(seq[j], seq[i])

\* C15: for a candidate with at least one cue file collect_album_tracks returns exactly
\* the set of its cue files, sorted and without duplicates, and no audio file; for a
\* candidate without cue files it returns its audio files in sorted order.
C15_CuesOnlyElseAudio ==
  ReturnedFrom("collect_album_tracks")
  => /\ InOrder(call_out)
     /\ IF call_arg.cue_files # <<>>
        THEN /\ SeqToSet(call_out) = SeqToSet(call_arg.cue_files)
             /\ \A x \in SeqToSet(call_out) : Count(call_out, x) = 1
             /\ SeqToSet(call_out) \cap SeqToSet(call_arg.audio_files) = {}
        ELSE \A x \in SeqToSet(call_out) \cup SeqToSet(call_arg.audio_files) :
               Count(call_out, x) = Count(call_arg.audio_files, x)

\* a candidate with audio files and the same cue file listed twice, the cues out of order
C15_Witness_CuesPreferred ==
  /\ ReturnedFrom("collect_album_tracks")
  /\ call_arg.audio_files # <<>>
  /\ Len(call_arg.cue_files) = 2
  /\ ~InOrder(call_arg.cue_files)
  /\ Len(call_out) = 2

C18_NormalizeIdempotent ==
  (call_fn = "normalize_text" /\ call_pc = "done") => call_back = call_out

\* the starts of the digit runs of length four in s, and those that read 19xx or 20xx
FourDigitStarts(s) ==
  {i \in 1..Len(s) : (i = 1 \/ ~IsDigit(s[i - 1])) /\ DigitRunLen(s, i) = 4}
YearStarts(s) ==
  {i \in FourDigitStarts(s) : SubSeq(s, i, i + 1) \in {<<"1", "9">>, <<"2", "0">>}}
NumberAt(s, i) == IntOf(SubSeq(s, i, i + 3))

\* the "[" that open a bracketed segment: a "]" follows, and no earlier segment holds it
Covered(s, i, opens) ==
  \E o \in opens : o < i /\ \A m \in (o + 1)..i : s[m] # "]"
RECURSIVE SegmentOpens(_, _, _)
SegmentOpens(s, i, opens) ==
  IF i > Len(s) THEN opens
  ELSE SegmentOpens(s, i + 1,
                    IF s[i] = "[" /\ (\E j \in (i + 1)..Len(s) : s[j] = "]")
                       /\ ~Covered(s, i, opens)
                    THEN opens \cup {i} ELSE opens)
Bracketed(s, starts) ==
  {i \in starts : Covered(s, i, SegmentOpens(s, 1, {}))}

\* where a number first counts: its first bracketed occurrence, or else its first one
Rank(s, starts, y) ==
  LET inside == {i \in Bracketed(s, starts) : NumberAt(s, i) = y}
      any == {i \in starts : NumberAt(s, i) = y}
  IN IF inside # {} THEN Least(inside) ELSE Len(s) + Least(any)

\* out lists the numbers at starts once each: the bracketed ones first, then the others
ListsNumbers(s, starts, out) ==
  /\ SeqToSet(out) = {NumberAt(s, i) : i \in starts}
  /\ \A m, n \in 1..Len(out) : m < n => Rank(s, starts, out[m]) < Rank(s, starts, out[n])

\* C19 as stated: extract_years returns a list without duplicates that contains every
\* standalone 4-digit number of the input, those inside bracketed [...] segments first
\* in order of first appearance, then the remaining ones in order of appearance.
C19_EveryFourDigitNumber ==
  ReturnedFrom("extract_years") => ListsNumbers(call_arg, FourDigitStarts(call_arg), call_out)

\* C19, amended: extract_years returns a list without duplicates that contains every
\* standalone 4-digit number of the form 19xx or 20xx of the input, those inside
\* bracketed [...] segments first in order of first appearance, then the remaining ones
\* in order of appearance; "[1973 (2004)] Title" gives [1973, 2004].
C19_EveryYear ==
  ReturnedFrom("extract_years")
  => /\ ListsNumbers(call_arg, YearStarts(call_arg), call_out)
     /\ call_arg = Text_TwoYears => call_out = <<1973, 2004>>

\* a year in brackets is listed before a year that stands earlier in the text
C19_Witness_BracketedFirst ==
  /\ ReturnedFrom("extract_years")
  /\ call_out = <<1973, 2004>>
  /\ \E i, j \in YearStarts(call_arg) :
       i < j /\ NumberAt(call_arg, i) = 2004 /\ NumberAt(call_arg, j) = 1973

(***************************************************************************)
(* Properties of the track list of main, checked under SpecMain            *)
(***************************************************************************)
\* the track lists of the resolved entries, one after the other as main appended them
RECURSIVE Concatenated(_)
Concatenated(log) ==
  IF log = <<>> THEN <<>> ELSE log[1].tracks \o Concatenated(Tail(log))
FirstPos(seq, x) == Least({i \in 1..Len(seq) : seq[i] = x})

\* C16: the track list handed to the playlist writer contains no path twice and exactly
\* the paths collected from all resolved entries; without track sorting each path sits
\* at the position of its first occurrence in the concatenated list, so two entries
\* that resolve to the same album contribute its tracks once.
C16_TracksOnceInFirstSeenOrder ==
  LoopsOver
  => /\ \A x \in SeqToSet(all_tracks) : Count(all_tracks, x) = 1
     /\ SeqToSet(all_tracks) = SeqToSet(Concatenated(match_log))
     /\ unique_preserve_order(all_tracks) = all_tracks
     /\ ~args.sort_tracks
          => \A m, n \in 1..Len(all_tracks) :
               m < n => FirstPos(Concatenated(match_log), all_tracks[m])
                          < FirstPos(Concatenated(match_log), all_tracks[n])
     /\ playlist # NoFile => playlist = PlaylistFile(make_m3u8(all_tracks))

\* two entries resolved to the same album, whose tracks the written playlist lists once
C16_Witness_SameAlbumTwice ==
  /\ main_pc = "done"
  /\ playlist # NoFile
  /\ ~args.sort_tracks
  /\ \E a, b \in 1..Len(match_log) :
       /\ a < b
       /\ match_log[a].tracks # <<>>
       /\ match_log[a].tracks = match_log[b].tracks
       /\ Len(all_tracks) = Len(match_log[a].tracks)

(***************************************************************************)
(* Properties of the index caches, checked under SpecMain                  *)
(***************************************************************************)
NoCacheKinds == {"absent", "unreadable", "corrupt", "notlist"}
\* the primary index has just been loaded or built
PrimaryLoaded == main_pc = "primary_loop" /\ idx = 1 /\ args.primary # <<>>

\* C20: load_cached_candidates never raises to its caller: for a missing, unreadable or
\* corrupt cache file it returns None, after which the run indexes the library and
\* continues; save_candidates_cache never raises either, after a failed write the run
\* continues with the in-memory candidates.
C20_CacheFailuresNeverRaise ==
  /\ \A file \in {primary_cache, secondary_cache} :
       /\ ~load_cached_candidates(file).raised
       /\ file.kind \in NoCacheKinds => load_cached_candidates(file).none
       /\ ~save_candidates_cache(primary_candidates, file).raised
  /\ (PrimaryLoaded /\ primary_cache.kind \in NoCacheKinds)
       => /\ ~primary_cache.writable
          /\ primary_candidates = index_music_library(<<args.primary>>)
  /\ (PrimaryLoaded /\ primary_cache.kind = "list")
       => primary_candidates = primary_cache.data

\* a run with a corrupt cache that cannot be rewritten matched an entry in the library
C20_Witness_FailedSaveRunGoesOn ==
  /\ main_pc = "done"
  /\ primary_cache = LockedCache
  /\ primary_candidates # <<>>
  /\ \E k \in 1..Len(match_log) : match_log[k].via = "primary"

(***************************************************************************)
(* Properties of index_music_library, checked under SpecCalls              *)
(***************************************************************************)
Indexed == call_fn = "index_music_library" /\ call_pc = "returned"
\* the files a candidate lists
ListedFiles(c) == SeqToSet(c.audio_files) \cup SeqToSet(c.cue_files)
\* the directory of the file system a candidate was made of
DirOf(c) == CHOOSE i \in 1..Len(Fs) : Fs[i].path = c.root
\* the audio and cue files a directory holds itself
OwnFiles(d) ==
  {f \in SeqToSet(d.files) : Str_lower(Path_suffix(f)) \in AUDIO_EXTS \cup {<<".","c","u","e">>}}

\* C23: every candidate emitted by index_music_library has at least one audio file or
\* one cue file: a directory that directly contains neither never becomes a candidate,
\* whatever its sub-directories contain.
C23_CandidatesHaveFiles ==
  Indexed =>
    \A k \in 1..Len(call_out) :
      /\ ListedFiles(call_out[k]) # {}
      /\ call_out[k].root \in DirPaths
      /\ OwnFiles(Fs[DirOf(call_out[k])]) # {}
      /\ \A f \in ListedFiles(call_out[k]) : Path_parent(f) = call_out[k].root

\* the library /s was indexed: the disc folder CD1 is a candidate, its parent, which
\* holds only a text file, is not
C23_Witness_ParentOfDiscFolderLeftOut ==
  /\ Indexed
  /\ call_arg = << <<"/","s">> >>
  /\ \E k \in 1..Len(call_out) : Path_name(call_out[k].root) = <<"C","D","1">>
  /\ \A k \in 1..Len(call_out) :
       call_out[k].root # <<"/","s","/","E","g","g","/","[","1","9","7","0","]"," ","C","o","l","o","u","r","i","n","g","s">>

(***************************************************************************)
(* Properties of the artist gate of best_match, checked under SpecMatch    *)
(***************************************************************************)
\* the scores of lines 381-391 for candidate c, from the normalized texts
ArtistSetScore(c) ==
  fuzz_token_set_ratio(normalize_artist(target_artist), normalize_artist(c.artist))
ArtistSortScore(c) ==
  fuzz_token_sort_ratio(normalize_artist(target_artist), normalize_artist(c.artist))
AlbumScore(c) ==
  FracMax(fuzz_token_set_ratio(normalize_album_for_match(target_album, FALSE),
                               normalize_album_for_match(c.album, TRUE)),
          fuzz_ratio(Str_nospace(normalize_album_for_match(target_album, FALSE)),
                     Str_nospace(normalize_album_for_match(c.album, TRUE))))
DirectTest(c) == ScoreGeq(ArtistSetScore(c), 85) /\ ScoreGeq(ArtistSortScore(c), 90)
TargetTokens == SeqToSet(Str_split(normalize_artist(target_artist)))
ArtistTokens(c) == SeqToSet(Str_split(normalize_artist(c.artist)))
\* one of the three artist exceptions holds for candidate c
ArtistException(c) ==
  \/ artist_alias_ok(TargetTokens, ArtistTokens(c), AlbumScore(c), score_cutoff)
  \/ collab_ok(TargetTokens, ArtistTokens(c), AlbumScore(c), ArtistSetScore(c),
               HasCollabMarker(c.artist), score_cutoff)
  \/ duo_subset_ok(TargetTokens, ArtistTokens(c), AlbumScore(c), ArtistSetScore(c),
                   HasCollabMarker(target_artist), score_cutoff)
\* the candidates the gated stage accepted although their artist fails the direct test
AcceptedOnException == {h \in HitSet : ~DirectTest(candidates[h.idx])}

\* C24: in the gated stage, a candidate whose artist fails the direct test
\* (artistSetScore >= 85 and artistSortScore >= 90) passes the artist gate only if one
\* of the alias, collaboration or duo-subset exceptions holds, and each of these
\* requires albumScore >= max(score_cutoff, 95); so no candidate with albumScore < 95
\* is accepted on an artist exception.
C24_ExceptionsNeedStrongAlbum ==
  bm_pc = "done" =>
    \A h \in AcceptedOnException :
      /\ ArtistException(candidates[h.idx])
      /\ ScoreGeq(AlbumScore(candidates[h.idx]), Max2(score_cutoff, 95))
      /\ ~ScoreLt(AlbumScore(candidates[h.idx]), 95)

\* "Darryl Way" was accepted for "Darryl Way's Wolf" on the alias exception with an
\* exact album, and a second candidate whose album scores below 95 was refused
C24_Witness_AliasAcceptedWeakAlbumRefused ==
  /\ bm_pc = "done"
  /\ AcceptedOnException # {}
  /\ \E i \in 1..Len(candidates) :
       /\ ~DirectTest(candidates[i])
       /\ ScoreLt(AlbumScore(candidates[i]), 95)
       /\ ScoreGeq(AlbumScore(candidates[i]), score_cutoff)
       /\ \A h \in HitSet : h.idx # i

\* the fallback stages were run: no candidate passed the gated stage
FallbackRun == bm_pc = "done" /\ candidates # <<>> /\ hits = <<>>

\* C25: the artistSetScore and artistSortScore tested in the three fallback stages are
\* the scores of Step 2, computed on the candidate artist normalized with the artist
\* profile (one trailing parenthetical or bracket qualifier stripped): a candidate
\* artist that differs from the target only by such a qualifier ("Asia (US)" against
\* "Asia") meets the fallback's strong-artist requirement as it meets the direct test.
C25_FallbackUsesArtistProfile ==
  FallbackRun =>
    \A i \in 1..Len(candidates) :
      fallback_artist_ok(target_artist, candidates[i])
        = ( /\ ScoreGeq(ArtistSetScore(candidates[i]), FallbackArtistMin)
            /\ ScoreGeq(ArtistSortScore(candidates[i]), FallbackArtistMin) )

\* what best_match returns for the same call with target year y
WithYear(y) == best_match(target_artist, target_album, candidates, score_cutoff, y)

\* C29: whether best_match finds a match does not depend on the target year: for the
\* same target artist, target album, candidate list and cutoff it returns a result
\* with a target year if and only if it returns a result without one.
C29_FoundWhateverTheYear ==
  bm_pc = "done" =>
    \A y \in TargetYears \ {target_year} : WithYear(y).found = bm_result.found

\* with the target year another candidate is returned than without it
C29_Witness_YearChangesChoice ==
  /\ Returned
  /\ target_year # NoneStr
  /\ WithYear(NoneStr).found
  /\ WithYear(NoneStr).idx # bm_result.idx

(***************************************************************************)
(* Properties of the result of dedupe_entries, checked under SpecDedupe    *)
(***************************************************************************)
\* token_set_ratio of the normalized albums of input entries i and k
AlbumSimilarity(i, k) ==
  fuzz_token_set_ratio(normalize_text(dd_input[i].album), normalize_text(dd_input[k].album))

\* C27: in the output of dedupe_entries, any two kept entries with the same normalized
\* artist key have album similarity strictly below cutoff, and every discarded input
\* entry has album similarity >= cutoff with some kept entry of its group that
\* precedes it in the input.
C27_KeptApartDiscardedCovered ==
  dd_pc = "done"
  => /\ \A i, k \in KeptSet :
          (i # k /\ SameGroup(i, k)) => ScoreLt(AlbumSimilarity(i, k), dd_cutoff)
     /\ \A i \in Positions \ KeptSet :
          \E k \in KeptSet :
            /\ k < i
            /\ SameGroup(i, k)
            /\ ScoreGeq(AlbumSimilarity(i, k), dd_cutoff)

\* two entries of one artist are kept, a third one that resembles the first is discarded
C27_Witness_TwoKeptOneDiscarded ==
  /\ dd_pc = "done"
  /\ dd_pass = 1
  /\ \E i, k \in KeptSet : i # k /\ SameGroup(i, k)
  /\ \E i \in Positions \ KeptSet :
       \A k \in KeptSet : ScoreGeq(AlbumSimilarity(i, k), dd_cutoff) => SameGroup(i, k)

\* C28: dedupe_entries is idempotent for a fixed cutoff: applied to its own output it
\* returns the same entries in the same order with the same years.
C28_DedupeIdempotent ==
  (dd_pc = "done" /\ dd_pass = 2) => deduped = dd_first

\* the first call discarded an entry and filled a year; the second call has returned
C28_Witness_SecondCallAfterMerge ==
  /\ dd_pc = "done"
  /\ dd_pass = 2
  /\ Len(dd_first) = 2
  /\ \E n \in 1..Len(dd_first) : \E e \in DupPool :
       /\ ~has_year(e)
       /\ dd_first[n] = [e EXCEPT !.year = Str_1970]

(***************************************************************************)
(* Properties of the order of the libraries, checked under SpecMain        *)
(***************************************************************************)
\* the primary pass is over
PrimaryPassOver == idx > Len(entries)
\* the entry the secondary loop is at, as its position in the entry list
SecondaryEntry == remaining[rem_i].idx
\* the secondary library has been walked, or its cache file written
SecondaryTouched == secondary_candidates # <<>> \/ secondary_cache \notin SecondaryCaches

\* C30: an entry is matched against the secondary library only after the exceptions map
\* and the primary library both failed to resolve it, an entry resolved by exceptions
\* or primary is never looked up in secondary, and the secondary library is loaded from
\* cache or indexed only in runs where at least one entry remains unresolved after the
\* whole primary pass.
C30_SecondaryOnlyForTheRest ==
  /\ main_pc = "secondary_result"
       => /\ PrimaryPassOver
          /\ SecondaryEntry \notin ResolvedIdx
          /\ exception_folders(entries[SecondaryEntry], exceptions_map) = {}
          /\ ~best_match(entries[SecondaryEntry].artist, entries[SecondaryEntry].album,
                         primary_candidates, args.score_cutoff,
                         entries[SecondaryEntry].year).found
  /\ \A k \in 1..Len(match_log) :
       match_log[k].via = "secondary"
         => \A j \in 1..Len(match_log) : match_log[j].idx = match_log[k].idx => j = k
  /\ SecondaryTouched => (PrimaryPassOver /\ remaining # <<>>)

\* one entry was resolved in primary, the other one, left over, in the indexed secondary
C30_Witness_PrimaryThenSecondary ==
  /\ main_pc = "done"
  /\ SecondaryTouched
  /\ \E k, j \in 1..Len(match_log) :
       /\ match_log[k].via = "primary"
       /\ match_log[j].via = "secondary"

(***************************************************************************)
(* Properties of the start of main and of runs one after another, checked  *)
(* under SpecRuns                                                          *)
(***************************************************************************)
\* --primary is missing, empty or only whitespace
BadPrimary == ~argv.has_primary \/ AllSpaces(argv.primary)

\* C22: if the primary library path is missing, empty or only whitespace, the run
\* terminates with an error exit before any work begins: no log or not-found file is
\* deleted or created, no entry list is parsed, no cache is read or written, no library
\* is indexed and no playlist is written.
C22_BadPrimaryExitsBeforeWork ==
  [][BadPrimary =>
       /\ main_pc' \in {"argv", "validate", "exit"}
       /\ main_pc' = "exit" => exit_code' = 2
       /\ UNCHANGED <<not_found_file, log_file, playlist>>
       /\ UNCHANGED <<entries, exceptions_map>>
       /\ UNCHANGED <<primary_cache, secondary_cache>>
       /\ UNCHANGED <<primary_candidates, secondary_candidates, walked>>]_vars

\* a run without --dry-run and with a blank --primary has exited with status 2; the old
\* log and the old not-found file are still there
C22_Witness_BlankPrimaryExit ==
  /\ main_pc = "exit"
  /\ exit_code = 2
  /\ argv.has_primary
  /\ argv.primary # <<>>
  /\ BadPrimary
  /\ ~argv.dry_run
  /\ argv.list_file = "present"
  /\ not_found_file = OldNotFoundFile
  /\ log_file = "old"

\* C21: the candidate cache is keyed by library root: across consecutive runs,
\* candidates cached while indexing library root A are never used as the candidate set
\* of a run whose primary (or secondary) library root is a different path B.
C21_CandidatesOfTheRunsLibrary ==
  /\ \A k \in 1..Len(primary_candidates) : under(primary_candidates[k].root, args.primary)
  /\ \A k \in 1..Len(secondary_candidates) :
       under(secondary_candidates[k].root, args.secondary)

\* the file holds a list, which load_cached_candidates returns
HoldsList(file) == file.kind = "list"
\* the step walks the library at root
Walks(root) == root \in walked' /\ root \notin walked

\* C26: across consecutive runs, once a cache file for a library exists and loads as a
\* list (even an empty one), every later run uses exactly the cached list as that
\* library's candidate set, does not walk the library and does not rewrite the cache
\* file, whatever has changed in the library since; the library is walked and the cache
\* written only in a run where the load yields no cache.
C26_CachedListServedAsIs ==
  [][/\ (main_pc = "primary_index" /\ args.primary # <<>> /\ HoldsList(primary_cache))
          => /\ primary_candidates' = primary_cache.data
             /\ main_pc' = "primary_loop"
     /\ (main_pc = "secondary_index" /\ secondary_wanted /\ HoldsList(secondary_cache))
          => /\ secondary_candidates' = secondary_cache.data
             /\ main_pc' = "secondary_loop"
     /\ HoldsList(primary_cache)
          => primary_cache' = primary_cache /\ ~Walks(args.primary)
     /\ HoldsList(secondary_cache)
          => secondary_cache' = secondary_cache /\ ~Walks(args.secondary)
     /\ (Walks(args.primary) \/ primary_cache' # primary_cache)
          => main_pc = "primary_index" /\ ~HoldsList(primary_cache)
     /\ (Walks(args.secondary) \/ secondary_cache' # secondary_cache)
          => main_pc = "secondary_index" /\ ~HoldsList(secondary_cache)]_vars

\* the second run matched an album in a folder deleted since the first run cached it
C26_Witness_DeletedFolderMatched ==
  /\ main_pc = "done"
  /\ run = 2
  /\ RemovableFolder \in removed
  /\ args.primary \notin walked
  /\ primary_candidates = primary_cache.data
  /\ primary_candidates # walk_library(<<args.primary>>, removed)
  /\ \E k \in 1..Len(match_log) :
       match_log[k].via = "primary" /\ match_log[k].root = RemovableFolder

=============================================================================
